---------------------------- MODULE Spec2Model ----------------------------
(***************************************************************************)
(* Lifecycle of a strategy stream: BaseStrategyAgent.stream (an async      *)
(* generator run by one asyncio task per strategy) driving a               *)
(* StreamController, a StrategyRuntime and the strategy_persistence store. *)
(*                                                                         *)
(* One action is one stretch of the generator between two suspension       *)
(* points (an await or a yield) or one synchronous call of it.  A task can *)
(* be cancelled only where it awaits; a generator can be closed by its     *)
(* consumer only where it has yielded.  The store is written by other      *)
(* processes too (registration, the user's stop), at any time.             *)
(*                                                                         *)
(* Spec is one stream in an environment that may fail it at every call;    *)
(* SpecApi adds a controller called directly; SpecTwo is two streams on    *)
(* one event loop; SpecDigest is RollingDigestBuilder.build called on a    *)
(* list of history records; SpecCompose is the composer's normalization of *)
(* proposal items into trade instructions; SpecLegacy is the legacy        *)
(* StrategyAgent.stream and the runtime factory called by other callers;   *)
(* SpecOkx is the OKX adapter's symbol mapping and its position queries.    *)
(***************************************************************************)
EXTENDS Integers, Sequences, FiniteSets, TLC

VARIABLES
    ids,      \* the strategies whose stream task exists
    task,     \* [ids -> frame of BaseStrategyAgent.stream]
    ctl,      \* [ids -> StreamController object]
    rt,       \* [ids -> StrategyRuntime / coordinator]
    store,    \* [ids -> what strategy_persistence holds for the strategy]
    hist,     \* [ids -> what has happened so far (observations only)]
    api,      \* a StreamController driven directly through its public methods
    dg,       \* a RollingDigestBuilder, its input, the clock and its results
    cp,       \* a composer: its context, its last call, the ids it has given
    ox        \* an OKXExchange adapter, the account behind it, its last query

vars == <<ids, task, ctl, rt, store, hist, api, dg, cp, ox>>

(***************************************************************************)
(* Bounds of the model.                                                    *)
(***************************************************************************)
MaxTimeout == 2   \* timeout_s is drawn from 0..MaxTimeout
MaxCycles  == 2   \* decision cycles started per strategy
MaxTrades  == 2   \* trades in one cycle result / one close_all_positions
MaxRecords == 2   \* history records handed to RollingDigestBuilder.build
MaxPayloads == 2  \* trade payloads in the records handed to build
MaxClock   == 2   \* readings of the wall clock
MaxTarget  == 5   \* largest target_qty of a proposal item

ControllerState == {"INITIALIZING", "WAITING_RUNNING", "RUNNING", "STOPPED"}

\* As AwaitPcs, with an await between run_cycle and persist_cycle_results.
AwaitPcsAndPersist == {"create_runtime", "wait_sleep", "run_cycle",
                       "persist_cycle", "sleep", "close_positions", "fin_close"}

\* The pcs at which the generator is suspended in an await.
AwaitPcs == {"create_runtime", "wait_sleep", "run_cycle", "sleep",
             "close_positions", "fin_close"}

\* The pcs at which the generator is suspended in a yield.
YieldPcs == {"y_invalid_msg", "y_invalid_done", "y_status", "y_error", "y_done"}

\* The generator has returned ("done") or an exception has left it ("raised").
Ended(s) == task[s].pc \in {"done", "raised"}

Min(a, b) == IF a < b THEN a ELSE b

(***************************************************************************)
(* StreamController.transition_to: sets the state, whatever it was.        *)
(***************************************************************************)
transition_to(c, new_state) == [c EXCEPT !.state = new_state]

(***************************************************************************)
(* strategy_persistence.strategy_running(strategy_id): the answer of the   *)
(* store, or an exception.                                                 *)
(***************************************************************************)
strategy_running(strategy_id) ==
    {IF store[strategy_id].status = "running" THEN "true" ELSE "false", "raise"}

\* As is_running, with an exception of the store read as True.
is_running_unless_false(r) == r # "false"

(***************************************************************************)
(* StreamController.is_running: an exception of the store reads as False.  *)
(***************************************************************************)
is_running(r) == IF r = "raise" THEN FALSE ELSE r = "true"

(***************************************************************************)
(* What the collaborators of a stream may do to it: the answers the store  *)
(* gives to strategy_running, whether a user hook may raise, the           *)
(* persistence calls that may raise, and whether the calls of finalize     *)
(* (coordinator.close, mark_strategy_stopped) may raise.                   *)
(***************************************************************************)
AnyFault == [answers |-> {"true", "false", "raise"},
             hook |-> BOOLEAN,
             failing |-> {"get_view", "compose", "instructions", "trade",
                          "portfolio", "summary"},
             finalize |-> BOOLEAN]

\* The store answers, no hook raises and every persistence call succeeds.
NoFault == [answers |-> {"true", "false"}, hook |-> {FALSE}, failing |-> {},
            finalize |-> {FALSE}]

InitTask == [pc |-> "parse", stop_reason |-> "unset", pending |-> "none",
             exc |-> "none", events |-> <<>>]

InitCtl(t) == [state |-> "none", strategy_id |-> "none", timeout_s |-> t,
               elapsed |-> 0]

\* The collaborators are object identities; 0 is no object.
InitRt == [built |-> FALSE, close_calls |-> 0, result |-> 0,
           portfolio_service |-> 0, history_recorder |-> 0,
           execution_gateway |-> 0]

InitStore == [status |-> "created", marks |-> 0, writes |-> <<>>,
              failed |-> {}, close_trades |-> 0]

InitHist == [cycles |-> 0, finalize_calls |-> 0, close_attempts |-> 0,
             close_outcome |-> "none", close_returned |-> 0,
             cycles_at_stop |-> -1, poll_failed |-> FALSE,
             stop_in_flight |-> FALSE, cycle_raised |-> FALSE,
             cycle_states |-> {}, returned |-> 0, persisted |-> 0,
             exit_path |-> "none", on_stop_reason |-> "none",
             finalize_reason |-> "none", hook_raised |-> {},
             initial_calls |-> 0, check_raised |-> FALSE,
             shutdown |-> <<>>, finalize_raised |-> {},
             factory_calls |-> 0, trading_mode |-> "none",
             gateway_supplied |-> <<>>, gateways_created |-> {},
             factory_raised |-> "none", persist_raised |-> FALSE,
             cycles_at_raise |-> -1]

\* A digest builder that is never called.
InitDg == [records |-> <<>>, window |-> 1, clock |-> 1, results |-> <<>>]

\* A composer that is never called.
InitCp ==
    [context |-> [portfolio |-> <<>>, min_step |-> <<>>,
                  max_position_size |-> <<>>, max_positions |-> <<>>,
                  cooldown |-> {}],
     calls |-> 0, call |-> <<>>, emitted |-> <<>>]

\* An adapter that is never called, on an account that holds nothing.
InitOx == [inst_type |-> "SWAP", held |-> {}, balances |-> {}, call |-> <<>>]

Init ==
    /\ dg = InitDg
    /\ cp = InitCp
    /\ ox = InitOx
    /\ ids = {"s1"}
    /\ task = [s \in ids |-> InitTask]
    /\ \E t \in 0..MaxTimeout : ctl = [s \in ids |-> InitCtl(t)]
    /\ rt = [s \in ids |-> InitRt]
    /\ store = [s \in ids |-> InitStore]
    /\ hist = [s \in ids |-> InitHist]
    /\ api = [state |-> "INITIALIZING", elapsed |-> 0, waiting |-> FALSE]


(***************************************************************************)
(* stream, lines 138-144: the request is parsed; an invalid payload is     *)
(* answered by a message and done, and nothing else.                       *)
(***************************************************************************)
ParseRequest(s) ==
    /\ s \in ids
    /\ task[s].pc = "parse"
    /\ \E valid \in BOOLEAN :
         task' = [task EXCEPT ![s] =
                    IF valid
                    THEN [@ EXCEPT !.pc = "create_runtime"]
                    ELSE [@ EXCEPT !.pc = "y_invalid_msg",
                                   !.events = Append(@, "message")]]
    /\ UNCHANGED <<ox, cp, dg, ids, ctl, rt, store, hist, api>>

\* As invalid_return, without the return of line 144: the stream goes on to
\* create the runtime.
invalid_return_missing(t) == [t EXCEPT !.pc = "create_runtime"]

\* stream, line 144: the generator returns after the done of line 143.
invalid_return(t) == [t EXCEPT !.pc = "done"]

ResumeInvalid(s) ==
    /\ s \in ids
    /\ task[s].pc \in {"y_invalid_msg", "y_invalid_done"}
    /\ task' = [task EXCEPT ![s] =
                  IF @.pc = "y_invalid_msg"
                  THEN [@ EXCEPT !.pc = "y_invalid_done",
                                 !.events = Append(@, "done")]
                  ELSE invalid_return(@)]
    /\ UNCHANGED <<ox, cp, dg, ids, ctl, rt, store, hist, api>>

(***************************************************************************)
(* stream, lines 147-167: the runtime is created (the factory may raise),  *)
(* the controller is constructed in INITIALIZING and the RUNNING status is *)
(* yielded.                                                                *)
(***************************************************************************)
\* As create_strategy_runtime, with the collaborators kept in module-level
\* singletons.
create_strategy_runtime_shared(r, k) ==
    [r EXCEPT !.built = TRUE, !.portfolio_service = 1,
              !.history_recorder = 2, !.execution_gateway = 3]

(***************************************************************************)
(* create_strategy_runtime, lines 101-151, called when k runtimes exist:   *)
(* every call constructs a portfolio service, an execution gateway and a   *)
(* history recorder of its own (objects that no earlier call returned).    *)
(***************************************************************************)
create_strategy_runtime(r, k) ==
    [r EXCEPT !.built = TRUE, !.portfolio_service = 3 * k + 1,
              !.history_recorder = 3 * k + 2, !.execution_gateway = 3 * k + 3]

\* StreamController.__init__, lines 45-48.
controller_init(c, strategy_id) ==
    [c EXCEPT !.state = "INITIALIZING", !.strategy_id = strategy_id]

CreateRuntime(s) ==
    /\ s \in ids
    /\ task[s].pc = "create_runtime"
    /\ \E ok \in BOOLEAN :
         IF ok
         THEN /\ rt' = [rt EXCEPT ![s] = create_strategy_runtime(
                          @, Cardinality({t \in ids : rt[t].built}))]
              /\ ctl' = [ctl EXCEPT ![s] = controller_init(@, s)]
              /\ task' = [task EXCEPT ![s].pc = "y_status",
                                      ![s].events = Append(@, "status")]
         ELSE /\ task' = [task EXCEPT ![s].pc = "raised",
                                      ![s].exc = "Exception"]
              /\ UNCHANGED <<rt, ctl>>
    /\ UNCHANGED <<ox, cp, dg, ids, store, hist, api>>

(***************************************************************************)
(* wait_running, lines 71-72: WAITING_RUNNING, and the clock starts.       *)
(***************************************************************************)
WaitRunningBegin(s) ==
    /\ s \in ids
    /\ task[s].pc = "y_status"
    /\ ctl' = [ctl EXCEPT ![s] =
                 [transition_to(@, "WAITING_RUNNING") EXCEPT !.elapsed = 0]]
    /\ task' = [task EXCEPT ![s].pc = "wait_poll"]
    /\ UNCHANGED <<ox, cp, dg, ids, rt, store, hist, api>>

(***************************************************************************)
(* wait_running, lines 73-92: one evaluation of the loop condition with    *)
(* the store answering r.  The try encloses the whole loop, so an          *)
(* exception of the poll leaves the loop; "sleep" is the loop going on.    *)
(***************************************************************************)
\* As wait_running_step, with the try inside the loop: a failed poll is retried.
wait_running_step_retrying(c, r) ==
    CASE r = "true" -> "running"
      [] r = "false" /\ c.elapsed > c.timeout_s -> "timeout"
      [] OTHER -> "sleep"

\* As wait_running_step, without the timeout of lines 75-82.
wait_running_step_unbounded(c, r) ==
    CASE r = "raise" -> "poll_error"
      [] r = "true" -> "running"
      [] OTHER -> "sleep"

wait_running_step(c, r) ==
    CASE r = "raise" -> "poll_error"
      [] r = "true" -> "running"
      [] r = "false" /\ c.elapsed > c.timeout_s -> "timeout"
      [] OTHER -> "sleep"

\* As wait_running_exit, without the transition of line 93.
wait_running_exit_skipped(c) == [c EXCEPT !.elapsed = 0]

\* wait_running, line 93; its clock (since, elapsed) is local to the call.
wait_running_exit(c) == [transition_to(c, "RUNNING") EXCEPT !.elapsed = 0]

WaitPoll(s, env) ==
    /\ s \in ids
    /\ task[s].pc = "wait_poll"
    /\ \E r \in strategy_running(ctl[s].strategy_id) \cap env.answers :
         LET out == wait_running_step(ctl[s], r) IN
         /\ IF out = "sleep"
            THEN /\ task' = [task EXCEPT ![s].pc = "wait_sleep"]
                 /\ UNCHANGED ctl
            ELSE /\ task' = [task EXCEPT ![s].pc = "on_start"]
                 /\ ctl' = [ctl EXCEPT ![s] = wait_running_exit(@)]
         /\ hist' = [hist EXCEPT ![s].poll_failed = @ \/ r = "raise"]
    /\ UNCHANGED <<ox, cp, dg, ids, rt, store, api>>

\* wait_running, line 83: asyncio.sleep(1) takes a second or more.
WaitSleep(s) ==
    /\ s \in ids
    /\ task[s].pc = "wait_sleep"
    /\ \E d \in 1..2 :
         ctl' = [ctl EXCEPT ![s].elapsed = Min(@ + d, ctl[s].timeout_s + 1)]
    /\ task' = [task EXCEPT ![s].pc = "wait_poll"]
    /\ UNCHANGED <<ox, cp, dg, ids, rt, store, hist, api>>

(***************************************************************************)
(* stream, lines 220-223: an exception caught in the try sets the stop     *)
(* reason and is reported by a message on the stream.                      *)
(***************************************************************************)
\* As on_exception, without the assignment of line 221.
on_exception_reason_kept(t) ==
    [t EXCEPT !.pc = "y_error", !.events = Append(@, "message")]

on_exception(t) ==
    [t EXCEPT !.pc = "y_error", !.stop_reason = "error",
              !.events = Append(@, "message")]

(***************************************************************************)
(* stream, lines 173-176, 196-201 and 243-246: a user hook is awaited in a *)
(* try of its own; an exception it raises is logged and the stream goes on *)
(* at next_pc as if the hook had returned.                                 *)
(***************************************************************************)
\* As call_hook, without the try around the hook.
call_hook_unguarded(t, raises, next_pc) ==
    IF raises THEN [t EXCEPT !.pc = "raised", !.exc = "Exception"]
    ELSE [t EXCEPT !.pc = next_pc]

call_hook(t, raises, next_pc) == [t EXCEPT !.pc = next_pc]

\* h with the hook noted, when it raised.
NoteHook(h, raises, hook) ==
    [h EXCEPT !.hook_raised = IF raises THEN @ \cup {hook} ELSE @]

\* stream, lines 173-176: the _on_start hook.
OnStart(s, env) ==
    /\ s \in ids
    /\ task[s].pc = "on_start"
    /\ \E raises \in env.hook :
         /\ task' = [task EXCEPT ![s] = call_hook(@, raises, "persist_initial")]
         /\ hist' = [hist EXCEPT ![s] = NoteHook(@, raises, "_on_start")]
    /\ UNCHANGED <<ox, cp, dg, ids, ctl, rt, store, api>>

(***************************************************************************)
(* persist_initial_state, lines 100-124, when the calls in fail raise: the *)
(* writes attempted, in order, and whether an exception leaves the method  *)
(* (one try encloses them all).                                            *)
(***************************************************************************)
persist_initial_state(fail) ==
    [writes |-> IF "get_view" \in fail THEN <<>>
                ELSE IF "portfolio" \in fail THEN <<"portfolio">>
                ELSE <<"portfolio", "summary">>,
     raised |-> FALSE]

\* The calls of `writes` that raised.
Failed(writes, fail) == {w \in fail : \E i \in DOMAIN writes : writes[i] = w}

PersistInitial(s, env) ==
    /\ s \in ids
    /\ task[s].pc = "persist_initial"
    /\ \E fail \in SUBSET ({"get_view", "portfolio", "summary"} \cap env.failing) :
         LET res == persist_initial_state(fail) IN
         /\ store' = [store EXCEPT ![s].writes = res.writes,
                                   ![s].failed = Failed(res.writes, fail)
                                                   \cup (fail \cap {"get_view"})]
         /\ task' = [task EXCEPT ![s] =
                       IF res.raised
                       THEN on_exception(@)
                       ELSE [@ EXCEPT !.pc = "loop_check"]]
    /\ hist' = [hist EXCEPT ![s].initial_calls = @ + 1]
    /\ UNCHANGED <<ox, cp, dg, ids, ctl, rt, api>>


(***************************************************************************)
(* stream, lines 224-226: the finally block closes the positions only when *)
(* the loop ended because the strategy is no longer running.               *)
(***************************************************************************)
\* As ClosesPositions, closing the positions on every path.
ClosesPositionsAlways(stop_reason) == TRUE

ClosesPositions(stop_reason) == stop_reason = "normal_exit"

\* The frame t entering the finally block with its stop_reason set.
EnterFinally(t) ==
    [t EXCEPT !.pc = IF ClosesPositions(t.stop_reason)
                     THEN "close_positions" ELSE "on_stop"]

\* h with the call of close_all_positions (line 228) noted, when it is made.
NoteFinally(h, stop_reason) ==
    [h EXCEPT !.close_attempts =
                  IF ClosesPositions(stop_reason) THEN @ + 1 ELSE @,
              !.shutdown =
                  IF ClosesPositions(stop_reason)
                  THEN Append(@, "close_all_positions") ELSE @]

(***************************************************************************)
(* stream, lines 184-185 and 210-214: the running predicate is read at the *)
(* top of every iteration; a cycle starts, or the loop ends normally.      *)
(***************************************************************************)
LoopCheck(s, env) ==
    /\ s \in ids
    /\ task[s].pc = "loop_check"
    /\ \E r \in strategy_running(ctl[s].strategy_id) \cap env.answers :
         IF is_running(r)
         THEN /\ hist[s].cycles < MaxCycles
              /\ task' = [task EXCEPT ![s].pc = "run_cycle"]
              /\ hist' = [hist EXCEPT ![s].cycles = @ + 1,
                                      ![s].cycle_states = @ \cup {ctl[s].state},
                                      ![s].check_raised = @ \/ r = "raise"]
         ELSE /\ task' = [task EXCEPT ![s] =
                            EnterFinally([@ EXCEPT !.stop_reason = "normal_exit"])]
              /\ hist' = [hist EXCEPT ![s] =
                            [NoteFinally(@, "normal_exit")
                                EXCEPT !.exit_path = "not_running",
                                       !.check_raised = (r = "raise")]]
    /\ store' = [store EXCEPT ![s].writes = <<>>, ![s].failed = {}]
    /\ UNCHANGED <<ox, cp, dg, ids, ctl, rt, api>>

(***************************************************************************)
(* DefaultDecisionCoordinator.run_once, which StrategyRuntime.run_cycle    *)
(* awaits: a failure of the market data fetch or of the feature            *)
(* computation propagates to the caller; otherwise a result is returned.   *)
(***************************************************************************)
run_once(data_ok) == IF data_ok THEN "result" ELSE "raise"

(***************************************************************************)
(* stream, lines 185 and 220-223: run_cycle returns a result with n trades *)
(* or raises; an exception ends the loop with an error message.            *)
(***************************************************************************)
RunCycle(s) ==
    /\ s \in ids
    /\ task[s].pc = "run_cycle"
    /\ \E data_ok \in BOOLEAN :
         IF run_once(data_ok) = "result"
         THEN /\ \E n \in 0..MaxTrades : rt' = [rt EXCEPT ![s].result = n]
              /\ task' = [task EXCEPT ![s].pc = "persist_cycle"]
              /\ hist' = [hist EXCEPT ![s].returned = @ + 1]
         ELSE /\ task' = [task EXCEPT ![s] = on_exception(@)]
              /\ hist' = [hist EXCEPT ![s].cycle_raised = TRUE,
                                      ![s].exit_path = "exception"]
              /\ UNCHANGED rt
    /\ UNCHANGED <<ox, cp, dg, ids, ctl, store, api>>

(***************************************************************************)
(* persist_cycle_results, lines 131-184, for a result of n trades when the *)
(* calls in fail raise (for "trade": the k-th trade): the writes           *)
(* attempted, in order, and whether an exception leaves the method.        *)
(* compose and instructions have a try of their own; the trades, the       *)
(* portfolio view and the summary share the outer one.                     *)
(***************************************************************************)
\* As persist_cycle_results, with the portfolio view and the summary written
\* before the trades.
persist_cycle_results_trades_last(n, fail, k) ==
    LET stops == "trade" \in fail /\ n > 0
        trades == [i \in 1..(IF stops THEN Min(k, n) ELSE n) |-> "trade"]
        rest == IF "portfolio" \in fail THEN <<"portfolio">>
                ELSE <<"portfolio", "summary">>
    IN  [writes |-> <<"compose", "instructions">> \o rest \o
                    (IF Len(rest) = 2 THEN trades ELSE <<>>),
         raised |-> FALSE]

\* As persist_cycle_results, without the outer try of lines 131 and 183.
persist_cycle_results_unguarded(n, fail, k) ==
    LET stops == "trade" \in fail /\ n > 0
        trades == [i \in 1..(IF stops THEN Min(k, n) ELSE n) |-> "trade"]
        rest == IF stops THEN <<>>
                ELSE IF "portfolio" \in fail THEN <<"portfolio">>
                ELSE <<"portfolio", "summary">>
    IN  [writes |-> <<"compose", "instructions">> \o trades \o rest,
         raised |-> stops \/ fail \cap {"portfolio", "summary"} # {}]

persist_cycle_results(n, fail, k) ==
    LET stops == "trade" \in fail /\ n > 0
        trades == [i \in 1..(IF stops THEN Min(k, n) ELSE n) |-> "trade"]
        rest == IF stops THEN <<>>
                ELSE IF "portfolio" \in fail THEN <<"portfolio">>
                ELSE <<"portfolio", "summary">>
    IN  [writes |-> <<"compose", "instructions">> \o trades \o rest,
         raised |-> FALSE]

PersistCycle(s, env) ==
    /\ s \in ids
    /\ task[s].pc = "persist_cycle"
    /\ \E fail \in SUBSET ({"compose", "instructions", "trade", "portfolio",
                            "summary"} \cap env.failing), k \in 1..MaxTrades :
         LET res == persist_cycle_results(rt[s].result, fail, k) IN
         /\ store' = [store EXCEPT ![s].writes = res.writes,
                                   ![s].failed = Failed(res.writes, fail)]
         /\ task' = [task EXCEPT ![s] =
                       IF res.raised
                       THEN on_exception(@)
                       ELSE [@ EXCEPT !.pc = "on_cycle_result"]]
    /\ hist' = [hist EXCEPT ![s].persisted = @ + 1]
    /\ UNCHANGED <<ox, cp, dg, ids, ctl, rt, api>>

\* stream, lines 196-201: the _on_cycle_result hook.
OnCycleResult(s, env) ==
    /\ s \in ids
    /\ task[s].pc = "on_cycle_result"
    /\ \E raises \in env.hook :
         /\ task' = [task EXCEPT ![s] = call_hook(@, raises, "sleep")]
         /\ hist' = [hist EXCEPT ![s] = NoteHook(@, raises, "_on_cycle_result")]
    /\ rt' = [rt EXCEPT ![s].result = 0]
    /\ store' = [store EXCEPT ![s].writes = <<>>, ![s].failed = {}]
    /\ UNCHANGED <<ox, cp, dg, ids, ctl, api>>

\* As Sleep, with the running predicate checked at the end of the iteration
\* only: after the sleep the next cycle starts at once.
SleepThenCycle(s) ==
    /\ s \in ids
    /\ task[s].pc = "sleep"
    /\ hist[s].cycles < MaxCycles
    /\ task' = [task EXCEPT ![s].pc = "run_cycle"]
    /\ hist' = [hist EXCEPT ![s].cycles = @ + 1]
    /\ UNCHANGED <<ox, cp, dg, ids, ctl, rt, store, api>>

\* stream, line 208: asyncio.sleep(decide_interval) is over.
Sleep(s) ==
    /\ s \in ids
    /\ task[s].pc = "sleep"
    /\ task' = [task EXCEPT ![s].pc = "loop_check"]
    /\ UNCHANGED <<ox, cp, dg, ids, ctl, rt, store, hist, api>>

\* stream, lines 223-226: resumed after the error message, into the finally.
ResumeError(s) ==
    /\ s \in ids
    /\ task[s].pc = "y_error"
    /\ task' = [task EXCEPT ![s] = EnterFinally(@)]
    /\ hist' = [hist EXCEPT ![s] = NoteFinally(@, task[s].stop_reason)]
    /\ UNCHANGED <<ox, cp, dg, ids, ctl, rt, store, api>>

(***************************************************************************)
(* The methods StreamController defines (lines 36-230).                    *)
(***************************************************************************)
ControllerMethods ==
    {"state", "transition_to", "wait_running", "persist_initial_state",
     "persist_cycle_results", "finalize", "is_running"}

(***************************************************************************)
(* stream, lines 227-240: close_all_positions returns n trades or raises;  *)
(* the trades are handed to controller.persist_trades, and calling a       *)
(* method the controller does not define raises AttributeError.  Any       *)
(* exception in the try makes the stop reason error_closing_positions.     *)
(***************************************************************************)
ClosePositions(s) ==
    /\ s \in ids
    /\ task[s].pc = "close_positions"
    /\ \/ \E n \in 0..MaxTrades :
            LET persisted == n > 0 /\ "persist_trades" \in ControllerMethods
                failed == n > 0 /\ "persist_trades" \notin ControllerMethods
            IN  /\ hist' = [hist EXCEPT ![s].close_outcome = "returned",
                                        ![s].close_returned = n]
                /\ store' = [store EXCEPT ![s].close_trades =
                                IF persisted THEN n ELSE @]
                /\ task' = [task EXCEPT
                              ![s].pc = "on_stop",
                              ![s].stop_reason =
                                  IF failed THEN "error_closing_positions" ELSE @]
       \/ /\ hist' = [hist EXCEPT ![s].close_outcome = "raised"]
          /\ task' = [task EXCEPT ![s].pc = "on_stop",
                                  ![s].stop_reason = "error_closing_positions"]
          /\ UNCHANGED store
    /\ UNCHANGED <<ox, cp, dg, ids, ctl, rt, api>>

\* stream, lines 243-246: the _on_stop hook, called with the stop reason.
OnStop(s, env) ==
    /\ s \in ids
    /\ task[s].pc = "on_stop"
    /\ \E raises \in env.hook :
         /\ task' = [task EXCEPT ![s] = call_hook(@, raises, "finalize")]
         /\ hist' = [hist EXCEPT ![s] =
                       [NoteHook(@, raises, "_on_stop")
                           EXCEPT !.on_stop_reason = task[s].stop_reason,
                                  !.shutdown = Append(@, "_on_stop")]]
    /\ UNCHANGED <<ox, cp, dg, ids, ctl, rt, store, api>>

\* As finalize_enter, without the transition of line 195.
finalize_enter_no_transition(c) == c

\* finalize, line 195.
finalize_enter(c) == transition_to(c, "STOPPED")

\* stream, line 249, and finalize, lines 195-198: STOPPED, then close() is awaited.
Finalize(s) ==
    /\ s \in ids
    /\ task[s].pc = "finalize"
    /\ ctl' = [ctl EXCEPT ![s] = finalize_enter(@)]
    /\ hist' = [hist EXCEPT ![s].finalize_calls = @ + 1,
                            ![s].finalize_reason = task[s].stop_reason,
                            ![s].shutdown =
                                IF ctl'[s].state = "STOPPED"
                                THEN Append(@, "STOPPED") ELSE @]
    /\ task' = [task EXCEPT ![s].pc = "fin_close"]
    /\ UNCHANGED <<ox, cp, dg, ids, rt, store, api>>

\* As finalize_guarded, without the try around the call.
finalize_unguarded(t, raises, next_pc) ==
    IF raises THEN [t EXCEPT !.pc = "raised", !.exc = "Exception"]
    ELSE [t EXCEPT !.pc = next_pc]

\* finalize, lines 197-207 and 210-220: each of its two calls is made in a
\* try of its own; an exception it raises is logged and finalize goes on.
finalize_guarded(t, raises, next_pc) == [t EXCEPT !.pc = next_pc]

\* finalize, lines 197-207: coordinator.close() returns or raises (logged).
FinClose(s, env) ==
    /\ s \in ids
    /\ task[s].pc = "fin_close"
    /\ rt' = [rt EXCEPT ![s].close_calls = @ + 1]
    /\ \E raises \in env.finalize :
         /\ task' = [task EXCEPT ![s] = finalize_guarded(@, raises, "fin_mark")]
         /\ hist' = [hist EXCEPT
                        ![s].shutdown = Append(@, "close"),
                        ![s].finalize_raised =
                            IF raises THEN @ \cup {"close"} ELSE @]
    /\ UNCHANGED <<ox, cp, dg, ids, ctl, store, api>>

(***************************************************************************)
(* finalize, lines 210-220, and stream, line 250: mark_strategy_stopped is *)
(* called (it may raise: logged), then done is yielded.  A generator that  *)
(* is being closed and yields gets RuntimeError instead.                   *)
(***************************************************************************)
FinMark(s, env) ==
    /\ s \in ids
    /\ task[s].pc = "fin_mark"
    /\ \E ok \in BOOLEAN, raises \in env.finalize :
         LET id == ctl[s].strategy_id
             after == finalize_guarded(task[s], raises, "y_done")
         IN
         /\ raises => ~ok
         /\ store' = [store EXCEPT
                        ![id].marks = @ + 1,
                        ![id].status = IF ok THEN "stopped" ELSE @]
         /\ hist' = [hist EXCEPT
                        ![id].cycles_at_stop =
                            IF ok /\ store[id].status # "stopped"
                            THEN hist[id].cycles ELSE @,
                        ![s].shutdown = Append(@, "mark_strategy_stopped"),
                        ![s].finalize_raised =
                            IF raises THEN @ \cup {"mark_strategy_stopped"}
                            ELSE @]
         /\ task' = [task EXCEPT ![s] =
                       IF after.pc # "y_done" THEN after
                       ELSE IF @.pending = "GeneratorExit"
                       THEN [@ EXCEPT !.pc = "raised", !.exc = "RuntimeError"]
                       ELSE [@ EXCEPT !.pc = "y_done",
                                      !.events = Append(@, "done")]]
    /\ UNCHANGED <<ox, cp, dg, ids, ctl, rt, api>>

\* stream, after line 250: the finally block ends; a pending exception goes on.
ResumeDone(s) ==
    /\ s \in ids
    /\ task[s].pc = "y_done"
    /\ task' = [task EXCEPT ![s] =
                  IF @.pending = "none"
                  THEN [@ EXCEPT !.pc = "done"]
                  ELSE [@ EXCEPT !.pc = "raised", !.exc = task[s].pending]]
    /\ UNCHANGED <<ox, cp, dg, ids, ctl, rt, store, hist, api>>


(***************************************************************************)
(* task.cancel() reaching the task where it awaits.  CancelledError is not *)
(* an Exception: only the handler of lines 216-219 catches it, and only    *)
(* inside the try of lines 178-214.  Raised by close_all_positions (line   *)
(* 228) or by coordinator.close() (line 198) it leaves the finally block   *)
(* or finalize at once.                                                    *)
(***************************************************************************)
\* As on_cancelled, without the raise of line 219.
on_cancelled_swallowed(t) == [t EXCEPT !.stop_reason = "cancelled"]

\* stream, lines 216-219: the stop reason is set and the exception re-raised;
\* it is pending while the finally block runs.
on_cancelled(t) ==
    [t EXCEPT !.stop_reason = "cancelled", !.pending = "CancelledError"]

Cancel(s) ==
    /\ s \in ids
    /\ task[s].pc \in AwaitPcs
    /\ IF task[s].pc \in {"run_cycle", "sleep"}
       THEN /\ task' = [task EXCEPT ![s] = EnterFinally(on_cancelled(@))]
            /\ hist' = [hist EXCEPT ![s] =
                          [NoteFinally(@, "cancelled")
                              EXCEPT !.exit_path = "cancelled"]]
       ELSE /\ task' = [task EXCEPT ![s].pc = "raised",
                                    ![s].exc = "CancelledError"]
            /\ hist' = [hist EXCEPT ![s].close_outcome =
                           IF task[s].pc = "close_positions"
                           THEN "cancelled" ELSE @]
    /\ UNCHANGED <<ox, cp, dg, ids, ctl, rt, store, api>>

(***************************************************************************)
(* The consumer closes the generator where it has yielded: GeneratorExit.  *)
(* Only the yield of line 223 is inside the try, so only there does the    *)
(* finally block run.                                                      *)
(***************************************************************************)
Aclose(s) ==
    /\ s \in ids
    /\ task[s].pc \in YieldPcs
    /\ IF task[s].pc = "y_error"
       THEN /\ task' = [task EXCEPT ![s] =
                          EnterFinally([@ EXCEPT !.pending = "GeneratorExit"])]
            /\ hist' = [hist EXCEPT ![s] = NoteFinally(@, task[s].stop_reason)]
       ELSE /\ task' = [task EXCEPT ![s].pc = "raised",
                                    ![s].exc = "GeneratorExit"]
            /\ UNCHANGED hist
    /\ UNCHANGED <<ox, cp, dg, ids, ctl, rt, store, api>>

(***************************************************************************)
(* The store as other processes write it: the strategy is registered as    *)
(* running, and later stopped by the user.                                 *)
(***************************************************************************)
EnvRegister(s) ==
    /\ s \in ids
    /\ store[s].status = "created"
    /\ store' = [store EXCEPT ![s].status = "running"]
    /\ UNCHANGED <<ox, cp, dg, ids, task, ctl, rt, hist, api>>

EnvStop(s) ==
    /\ s \in ids
    /\ store[s].status = "running"
    /\ store' = [store EXCEPT ![s].status = "stopped"]
    /\ hist' = [hist EXCEPT
                  ![s].cycles_at_stop = hist[s].cycles,
                  ![s].stop_in_flight =
                      task[s].pc \in {"run_cycle", "persist_cycle",
                                      "on_cycle_result", "sleep"}]
    /\ UNCHANGED <<ox, cp, dg, ids, task, ctl, rt, api>>

(***************************************************************************)
(* A StreamController called directly, in any order: wait_running (its     *)
(* two transitions), finalize and transition_to.                           *)
(***************************************************************************)
ApiWaitRunningBegin ==
    /\ ~api.waiting
    /\ api' = [transition_to(api, "WAITING_RUNNING") EXCEPT !.waiting = TRUE]
    /\ UNCHANGED <<ox, cp, dg, ids, task, ctl, rt, store, hist>>

ApiWaitRunningEnd ==
    /\ api.waiting
    /\ api' = [wait_running_exit(api) EXCEPT !.waiting = FALSE]
    /\ UNCHANGED <<ox, cp, dg, ids, task, ctl, rt, store, hist>>

ApiFinalize ==
    /\ api' = finalize_enter(api)
    /\ UNCHANGED <<ox, cp, dg, ids, task, ctl, rt, store, hist>>

ApiTransitionTo(new_state) ==
    /\ api' = transition_to(api, new_state)
    /\ UNCHANGED <<ox, cp, dg, ids, task, ctl, rt, store, hist>>

\* The strategy ids there are; ids holds those whose stream was started.
Strategies == {"s1", "s2"}

StreamStep(s, env) ==
    \/ ParseRequest(s)
    \/ ResumeInvalid(s)
    \/ CreateRuntime(s)
    \/ WaitRunningBegin(s)
    \/ WaitPoll(s, env)
    \/ WaitSleep(s)
    \/ OnStart(s, env)
    \/ PersistInitial(s, env)
    \/ LoopCheck(s, env)
    \/ RunCycle(s)
    \/ PersistCycle(s, env)
    \/ OnCycleResult(s, env)
    \/ Sleep(s)
    \/ ResumeError(s)
    \/ ClosePositions(s)
    \/ OnStop(s, env)
    \/ Finalize(s)
    \/ FinClose(s, env)
    \/ FinMark(s, env)
    \/ ResumeDone(s)

Next ==
    \E s \in Strategies :
        \/ StreamStep(s, AnyFault)
        \/ Cancel(s)
        \/ Aclose(s)
        \/ EnvRegister(s)
        \/ EnvStop(s)

ApiNext ==
    \/ ApiWaitRunningBegin
    \/ ApiWaitRunningEnd
    \/ ApiFinalize
    \/ \E new_state \in ControllerState : ApiTransitionTo(new_state)

\* The streams alone.
Spec == Init /\ [][Next]_vars

\* Two strategies started together, their tasks interleaved.
InitTwo ==
    /\ dg = InitDg
    /\ cp = InitCp
    /\ ox = InitOx
    /\ ids = Strategies
    /\ task = [s \in ids |-> InitTask]
    /\ ctl = [s \in ids |-> InitCtl(0)]
    /\ rt = [s \in ids |-> InitRt]
    /\ store = [s \in ids |-> InitStore]
    /\ hist = [s \in ids |-> InitHist]
    /\ api = [state |-> "INITIALIZING", elapsed |-> 0, waiting |-> FALSE]

(***************************************************************************)
(* The tasks of one event loop are cooperative: a task runs from one       *)
(* suspension point to the next without another task running in between.   *)
(* A task is off the processor where it awaits or has yielded, before it   *)
(* has started and after it has ended.  The store is written by other      *)
(* processes, at any time.                                                 *)
(***************************************************************************)
Suspended(s) ==
    task[s].pc \in AwaitPcs \cup YieldPcs \cup {"parse", "done", "raised"}

NextTwo ==
    \E s \in Strategies :
        \/ /\ \A t \in ids \ {s} : Suspended(t)
           /\ \/ StreamStep(s, NoFault)
              \/ Cancel(s)
              \/ Aclose(s)
        \/ EnvRegister(s)
        \/ EnvStop(s)

SpecTwo == InitTwo /\ [][NextTwo]_vars

\* The streams, and a controller called directly.
SpecApi == Init /\ [][Next \/ ApiNext]_vars

(***************************************************************************)
(* RollingDigestBuilder (trading_history/digest.py).  An optional value is *)
(* a sequence: <<>> is None (or a missing key), <<v>> is v.  A trade       *)
(* payload has the symbol of its instrument ("none": no instrument or no   *)
(* symbol), realized_pnl and trade_ts; a HistoryRecord has its kind, its   *)
(* ts and the trades of its payload.                                       *)
(***************************************************************************)
TradeDicts ==
    {[symbol |-> "BTC", realized_pnl |-> <<1>>, trade_ts |-> <<2>>],
     [symbol |-> "BTC", realized_pnl |-> <<-1>>, trade_ts |-> <<1>>],
     [symbol |-> "BTC", realized_pnl |-> <<>>, trade_ts |-> <<>>],
     [symbol |-> "ETH", realized_pnl |-> <<-1>>, trade_ts |-> <<1>>],
     [symbol |-> "none", realized_pnl |-> <<1>>, trade_ts |-> <<1>>]}

\* The symbols an instrument can have.
Symbols == {d.symbol : d \in TradeDicts} \ {"none"}

\* The lists of up to m trade payloads.
TradeLists(m) == UNION {[1..k -> TradeDicts] : k \in 0..m}

\* The records that hold up to m trade payloads.
HistoryRecords(m) ==
    [kind : {"execution"}, ts : {1, 2}, trades : TradeLists(m)]
      \cup [kind : {"compose"}, ts : {1, 2}, trades : {<<>>}]

\* The lists of up to n records that hold up to m trade payloads in all.
RECURSIVE RecordLists(_, _)
RecordLists(n, m) ==
    IF n = 0 THEN {<<>>}
    ELSE {<<>>} \cup UNION {
             {<<r>> \o rest : rest \in RecordLists(n - 1, m - Len(r.trades))} :
             r \in HistoryRecords(m)}

\* __init__, line 12: self._window = max(window, 1).
digest_window(window) == IF window > 1 THEN window ELSE 1

\* build, line 15: records[-self._window :].
recent_records(records, window) ==
    SubSeq(records,
           IF Len(records) > window THEN Len(records) - window + 1 ELSE 1,
           Len(records))

\* build, lines 23-26: a trade without a symbol is skipped.
has_symbol(d) == d.symbol # "none"

\* build, lines 18-22: the trades of the execution records, in order.
RECURSIVE window_trades(_)
window_trades(recent) ==
    IF recent = <<>> THEN <<>>
    ELSE (IF Head(recent).kind = "execution"
          THEN SelectSeq(Head(recent).trades, has_symbol) ELSE <<>>)
           \o window_trades(Tail(recent))

\* As digest_entry, counting a trade only when it carries a realized_pnl.
RECURSIVE digest_entry_priced_only(_, _, _)
digest_entry_priced_only(e, trades, symbol) ==
    IF trades = <<>> THEN e
    ELSE LET d == Head(trades)
             next == IF d.symbol # symbol \/ d.realized_pnl = <<>> THEN e
                     ELSE [e EXCEPT
                             !.trade_count = @ + 1,
                             !.realized_pnl = @ + d.realized_pnl[1],
                             !.last_trade_ts =
                                 IF d.trade_ts = <<>> THEN @ ELSE d.trade_ts]
         IN  digest_entry_priced_only(next, Tail(trades), symbol)

\* As digest_entry, with last_trade_ts the largest trade_ts seen so far.
RECURSIVE digest_entry_max_ts(_, _, _)
digest_entry_max_ts(e, trades, symbol) ==
    IF trades = <<>> THEN e
    ELSE LET d == Head(trades)
             next == IF d.symbol # symbol THEN e
                     ELSE [e EXCEPT
                             !.trade_count = @ + 1,
                             !.realized_pnl =
                                 @ + (IF d.realized_pnl = <<>> THEN 0
                                      ELSE d.realized_pnl[1]),
                             !.last_trade_ts =
                                 IF d.trade_ts = <<>> THEN @
                                 ELSE IF @ # <<>> /\ @[1] > d.trade_ts[1] THEN @
                                 ELSE d.trade_ts]
         IN  digest_entry_max_ts(next, Tail(trades), symbol)

\* build, lines 27-38: the entry of symbol after the trades, from entry e.
RECURSIVE digest_entry(_, _, _)
digest_entry(e, trades, symbol) ==
    IF trades = <<>> THEN e
    ELSE LET d == Head(trades)
             next == IF d.symbol # symbol THEN e
                     ELSE [e EXCEPT
                             !.trade_count = @ + 1,
                             !.realized_pnl =
                                 @ + (IF d.realized_pnl = <<>> THEN 0
                                      ELSE d.realized_pnl[1]),
                             !.last_trade_ts =
                                 IF d.trade_ts = <<>> THEN @ ELSE d.trade_ts]
         IN  digest_entry(next, Tail(trades), symbol)

(***************************************************************************)
(* build, lines 14-45, on records with the wall clock reading now: the     *)
(* TradeDigest returned.  Its ts is that of the last record of the window, *)
(* and the clock when there is none.                                       *)
(***************************************************************************)
build(records, window, now) ==
    LET recent == recent_records(records, window)
        trades == window_trades(recent)
        symbols == {trades[i].symbol : i \in DOMAIN trades}
    IN  [ts |-> IF recent # <<>> THEN recent[Len(recent)].ts ELSE now,
         by_instrument |->
             [symbol \in symbols |->
                 digest_entry([instrument |-> symbol, trade_count |-> 0,
                               realized_pnl |-> 0, last_trade_ts |-> <<>>],
                              trades, symbol)]]

\* A builder is constructed and given a list of records.
InitDigest ==
    /\ \E records \in RecordLists(MaxRecords, MaxPayloads), window \in 0..MaxRecords :
         dg = [records |-> records, window |-> digest_window(window),
               clock |-> 1, results |-> <<>>]
    /\ cp = InitCp
    /\ ox = InitOx
    /\ ids = {}
    /\ task = [s \in ids |-> InitTask]
    /\ ctl = [s \in ids |-> InitCtl(0)]
    /\ rt = [s \in ids |-> InitRt]
    /\ store = [s \in ids |-> InitStore]
    /\ hist = [s \in ids |-> InitHist]
    /\ api = [state |-> "INITIALIZING", elapsed |-> 0, waiting |-> FALSE]

\* As build_call, with by_instrument kept on the builder (self._by_instrument)
\* instead of created in the call: every result holds the same entries, and
\* a later call goes on counting in them.
build_call_shared_entries(d) ==
    LET recent == recent_records(d.records, d.window)
        seen == IF d.results = <<>> THEN recent ELSE recent \o recent
        shared == build(seen, Len(seen) + 1, d.clock)
    IN  [d EXCEPT !.results = [i \in 1..(Len(@) + 1) |-> shared]]

(***************************************************************************)
(* A call of build on the builder and the records of d, lines 14-45: the   *)
(* slice of line 15 is a new list, by_instrument (16) a new dict and every *)
(* entry (29-33) a new object, the records and their payloads are only     *)
(* read and the builder keeps nothing of the call.  The caller holds the   *)
(* TradeDigest returned next to those of the earlier calls.                *)
(***************************************************************************)
build_call(d) ==
    [d EXCEPT !.results = Append(@, build(d.records, d.window, d.clock))]

\* build is called on the records (twice at most).
DigestBuild ==
    /\ Len(dg.results) < 2
    /\ dg' = build_call(dg)
    /\ UNCHANGED <<ox, cp, ids, task, ctl, rt, store, hist, api>>

\* Time passes.
ClockTick ==
    /\ dg.clock < MaxClock
    /\ dg' = [dg EXCEPT !.clock = @ + 1]
    /\ UNCHANGED <<ox, cp, ids, task, ctl, rt, store, hist, api>>

NextDigest == DigestBuild \/ ClockTick

\* The digest builder called on a list of records.
SpecDigest == InitDigest /\ [][NextDigest]_vars

(***************************************************************************)
(* The composer.  LlmComposer (decision/composer.py, constructed at        *)
(* runtime.py:120) is not among the sources: its normalization is that of  *)
(* section 4.3 of the specification, on the data contracts of models.py.   *)
(* Quantities are whole numbers of the smallest step; an absent constraint *)
(* is <<>>.  The context holds the positions of the PortfolioView, the     *)
(* constraints and the symbols for which the digest shows a trade within   *)
(* the cooldown window.                                                    *)
(***************************************************************************)
LlmDecisionAction == {"buy", "sell", "flat", "noop"}

HeldQuantities == {-2, 0, 2}

TargetQuantities == -2..MaxTarget

ComposeIds == {"compose-1", "compose-2"}

LlmDecisionItem ==
    [instrument : Symbols, action : LlmDecisionAction,
     target_qty : TargetQuantities]

\* The positions of a PortfolioView: symbol -> signed quantity.
Portfolios == UNION {[D -> HeldQuantities] : D \in SUBSET Symbols}

ComposeContext ==
    [portfolio : Portfolios, min_step : {<<>>, <<2>>},
     max_position_size : {<<>>, <<2>>}, max_positions : {<<>>, <<1>>},
     cooldown : {{}, {"BTC"}}]

Abs(x) == IF x < 0 THEN -x ELSE x

\* The current signed quantity of the instrument, 0 if absent.
current_qty(portfolio, symbol) ==
    IF symbol \in DOMAIN portfolio THEN portfolio[symbol] ELSE 0

\* As instruction_id, derived from the compose_id alone.
instruction_id_of_cycle(compose_id, symbol) == <<compose_id>>

\* The instruction_id, derived from (compose_id, instrument).
instruction_id(compose_id, symbol) == <<compose_id, symbol>>

\* As side_of, taken from the action tag of the item instead of the delta.
side_of_action(action, delta) == IF action = "sell" THEN "SELL" ELSE "BUY"

\* The side of the order: BUY if delta > 0 else SELL.
side_of(action, delta) == IF delta > 0 THEN "BUY" ELSE "SELL"

(***************************************************************************)
(* The instructions (none or one) of one proposal item: nothing for a      *)
(* no-op or a delta below the threshold, nothing within the cooldown,      *)
(* nothing for a new position beyond max_positions; else one instruction   *)
(* of quantity |delta|, capped at the maximum position size.               *)
(***************************************************************************)
normalize_item(context, compose_id, item) ==
    LET current == current_qty(context.portfolio, item.instrument)
        delta == item.target_qty - current
        open == {s \in DOMAIN context.portfolio : context.portfolio[s] # 0}
        quantity ==
            IF /\ context.max_position_size # <<>>
               /\ Abs(delta) > context.max_position_size[1]
            THEN context.max_position_size[1] ELSE Abs(delta)
    IN  IF \/ item.action = "noop"
           \/ delta = 0
           \/ context.min_step # <<>> /\ Abs(delta) < context.min_step[1]
        THEN <<>>
        ELSE IF item.instrument \in context.cooldown THEN <<>>
        ELSE IF /\ context.max_positions # <<>>
                /\ current = 0
                /\ Cardinality(open) >= context.max_positions[1]
        THEN <<>>
        ELSE <<[instruction_id |->
                    instruction_id(compose_id, item.instrument),
                compose_id |-> compose_id,
                instrument |-> item.instrument,
                side |-> side_of(item.action, delta),
                quantity |-> quantity]>>

\* A composer with its context.
InitCompose ==
    /\ \E context \in ComposeContext :
         cp = [context |-> context, calls |-> 0, call |-> <<>>,
               emitted |-> <<>>]
    /\ dg = InitDg
    /\ ox = InitOx
    /\ ids = {}
    /\ task = [s \in ids |-> InitTask]
    /\ ctl = [s \in ids |-> InitCtl(0)]
    /\ rt = [s \in ids |-> InitRt]
    /\ store = [s \in ids |-> InitStore]
    /\ hist = [s \in ids |-> InitHist]
    /\ api = [state |-> "INITIALIZING", elapsed |-> 0, waiting |-> FALSE]

\* compose is called for the cycle compose_id with a proposal of one item
\* (twice at most).
Compose(compose_id, item) ==
    LET instructions == normalize_item(cp.context, compose_id, item)
    IN  /\ cp.calls < 2
        /\ cp' = [cp EXCEPT
                    !.calls = @ + 1,
                    !.call = <<[compose_id |-> compose_id, item |-> item,
                                instructions |-> instructions]>>,
                    !.emitted = @ \o
                        [i \in DOMAIN instructions |->
                            [instruction_id |->
                                 instructions[i].instruction_id,
                             compose_id |-> compose_id,
                             instrument |-> item.instrument]]]
        /\ UNCHANGED <<ox, dg, ids, task, ctl, rt, store, hist, api>>

NextCompose ==
    \E compose_id \in ComposeIds, item \in LlmDecisionItem :
        Compose(compose_id, item)

\* The composer called on proposal items.
SpecCompose == InitCompose /\ [][NextCompose]_vars

(***************************************************************************)
(* create_strategy_runtime (runtime.py) with its execution_gateway         *)
(* argument, and create_strategy_runtime_async.  A gateway is an object    *)
(* identity; <<>> is None.                                                 *)
(***************************************************************************)
TradingMode == {"live", "virtual"}

\* Execution gateways that a caller has initialized beforehand.
Gateways == {7, 8}

\* As resolve_execution_gateway, with the argument ignored: a gateway is
\* always made from the exchange config.
resolve_execution_gateway_ignoring(trading_mode, execution_gateway, fresh) ==
    IF trading_mode = "live"
    THEN [raised |-> "RuntimeError", gateway |-> 0, created |-> {}]
    ELSE [raised |-> "none", gateway |-> fresh, created |-> {fresh}]

(***************************************************************************)
(* create_strategy_runtime, lines 122-129: without a gateway, live trading *)
(* raises RuntimeError and paper trading makes a gateway (the object       *)
(* fresh) with create_execution_gateway_sync; a gateway that was supplied  *)
(* is kept.  created holds the gateways this call made.                    *)
(***************************************************************************)
resolve_execution_gateway(trading_mode, execution_gateway, fresh) ==
    IF execution_gateway = <<>>
    THEN IF trading_mode = "live"
         THEN [raised |-> "RuntimeError", gateway |-> 0, created |-> {}]
         ELSE [raised |-> "none", gateway |-> fresh, created |-> {fresh}]
    ELSE [raised |-> "none", gateway |-> execution_gateway[1], created |-> {}]

(***************************************************************************)
(* create_strategy_runtime, lines 99-151, called with a trading mode and   *)
(* an optional gateway when k runtimes exist: the runtime whose            *)
(* coordinator is given the resolved gateway (line 141), or the exception. *)
(***************************************************************************)
create_strategy_runtime_with(r, k, trading_mode, execution_gateway) ==
    LET g == resolve_execution_gateway(trading_mode, execution_gateway,
                                       3 * k + 3)
    IN  [raised |-> g.raised,
         created |-> g.created,
         runtime |-> IF g.raised # "none" THEN r
                     ELSE [create_strategy_runtime(r, k)
                              EXCEPT !.execution_gateway = g.gateway]]

(***************************************************************************)
(* create_strategy_runtime_async, lines 186-190: the gateway is made by    *)
(* create_execution_gateway (which may fail to connect) and handed to      *)
(* create_strategy_runtime.                                                *)
(***************************************************************************)
create_strategy_runtime_async(r, k, trading_mode, connected) ==
    IF connected
    THEN create_strategy_runtime_with(r, k, trading_mode, <<3 * k + 3>>)
    ELSE [raised |-> "Exception", created |-> {}, runtime |-> r]

\* What a call of the factory for strategy s was given and what it did.
NoteFactory(h, trading_mode, execution_gateway, res) ==
    [h EXCEPT !.factory_calls = @ + 1,
              !.trading_mode = trading_mode,
              !.gateway_supplied = execution_gateway,
              !.gateways_created = res.created,
              !.factory_raised = res.raised]

\* A caller other than a stream calls create_strategy_runtime, with or
\* without a gateway of its own, and holds the runtime.
CreateRuntimeDirect(s) ==
    /\ s \in ids
    /\ task[s].pc = "parse"
    /\ \E trading_mode \in TradingMode,
          execution_gateway \in {<<>>} \cup {<<g>> : g \in Gateways} :
         LET res == create_strategy_runtime_with(
                        rt[s], Cardinality({t \in ids : rt[t].built}),
                        trading_mode, execution_gateway)
         IN  /\ rt' = [rt EXCEPT ![s] = res.runtime]
             /\ hist' = [hist EXCEPT ![s] =
                           NoteFactory(@, trading_mode, execution_gateway, res)]
             /\ task' = [task EXCEPT ![s] =
                           IF res.raised = "none"
                           THEN [@ EXCEPT !.pc = "hosted"]
                           ELSE [@ EXCEPT !.pc = "raised",
                                          !.exc = res.raised]]
    /\ UNCHANGED <<ox, cp, dg, ids, ctl, store, api>>

\* A caller other than a stream awaits create_strategy_runtime_async.
CreateRuntimeAsync(s) ==
    /\ s \in ids
    /\ task[s].pc = "parse"
    /\ \E trading_mode \in TradingMode, connected \in BOOLEAN :
         LET k == Cardinality({t \in ids : rt[t].built})
             res == create_strategy_runtime_async(rt[s], k, trading_mode,
                                                  connected)
         IN  /\ rt' = [rt EXCEPT ![s] = res.runtime]
             /\ hist' = [hist EXCEPT ![s] =
                           IF connected
                           THEN NoteFactory(@, trading_mode, <<3 * k + 3>>, res)
                           ELSE @]
             /\ task' = [task EXCEPT ![s] =
                           IF res.raised = "none"
                           THEN [@ EXCEPT !.pc = "hosted"]
                           ELSE [@ EXCEPT !.pc = "raised",
                                          !.exc = res.raised]]
    /\ UNCHANGED <<ox, cp, dg, ids, ctl, store, api>>

(***************************************************************************)
(* The legacy StrategyAgent.stream (strategy_agent/agent.py), the agent    *)
(* that strategy_agent/__main__.py serves.  It has no StreamController:    *)
(* it polls the store itself, and its try (lines 72-162) has a finally     *)
(* block that yields done and does nothing else.                           *)
(***************************************************************************)
LegacyAwaitPcs == {"l_wait_sleep", "l_run_cycle", "l_sleep"}

LegacyYieldPcs == {"y_invalid_msg", "y_invalid_done", "l_y_status",
                   "l_y_error", "l_y_done"}

\* stream, lines 32-38: as in BaseStrategyAgent.stream.
LegacyParse(s) ==
    /\ s \in ids
    /\ task[s].pc = "parse"
    /\ \E valid \in BOOLEAN :
         task' = [task EXCEPT ![s] =
                    IF valid
                    THEN [@ EXCEPT !.pc = "l_create"]
                    ELSE [@ EXCEPT !.pc = "y_invalid_msg",
                                   !.events = Append(@, "message")]]
    /\ UNCHANGED <<ox, cp, dg, ids, ctl, rt, store, hist, api>>

LegacyResumeInvalid(s) ==
    /\ s \in ids
    /\ task[s].pc \in {"y_invalid_msg", "y_invalid_done"}
    /\ task' = [task EXCEPT ![s] =
                  IF @.pc = "y_invalid_msg"
                  THEN [@ EXCEPT !.pc = "y_invalid_done",
                                 !.events = Append(@, "done")]
                  ELSE [@ EXCEPT !.pc = "done"]]
    /\ UNCHANGED <<ox, cp, dg, ids, ctl, rt, store, hist, api>>

\* stream, lines 40-55: create_strategy_runtime(request), without a
\* gateway and outside any try, then the RUNNING status.
LegacyCreateRuntime(s) ==
    /\ s \in ids
    /\ task[s].pc = "l_create"
    /\ \E trading_mode \in TradingMode :
         LET res == create_strategy_runtime_with(
                        rt[s], Cardinality({t \in ids : rt[t].built}),
                        trading_mode, <<>>)
         IN  /\ rt' = [rt EXCEPT ![s] = res.runtime]
             /\ hist' = [hist EXCEPT ![s] =
                           NoteFactory(@, trading_mode, <<>>, res)]
             /\ task' = [task EXCEPT ![s] =
                           IF res.raised = "none"
                           THEN [@ EXCEPT !.pc = "l_y_status",
                                          !.events = Append(@, "status")]
                           ELSE [@ EXCEPT !.pc = "raised",
                                          !.exc = res.raised]]
    /\ UNCHANGED <<ox, cp, dg, ids, ctl, store, api>>

\* stream, lines 58-70: the store is polled until the strategy runs or 300
\* seconds of wall clock have passed; an exception of the store leaves the
\* generator (the loop is before the try).
LegacyWaitPoll(s, env) ==
    /\ s \in ids
    /\ task[s].pc \in {"l_y_status", "l_wait"}
    /\ \E r \in strategy_running(s) \cap env.answers, timed_out \in BOOLEAN :
         task' = [task EXCEPT ![s] =
                    IF r = "raise"
                    THEN [@ EXCEPT !.pc = "raised", !.exc = "Exception"]
                    ELSE IF r = "true" \/ timed_out
                    THEN [@ EXCEPT !.pc = "l_persist_initial"]
                    ELSE [@ EXCEPT !.pc = "l_wait_sleep"]]
    /\ UNCHANGED <<ox, cp, dg, ids, ctl, rt, store, hist, api>>

\* stream, line 67: asyncio.sleep(1) is over.
LegacyWaitSleep(s) ==
    /\ s \in ids
    /\ task[s].pc = "l_wait_sleep"
    /\ task' = [task EXCEPT ![s].pc = "l_wait"]
    /\ UNCHANGED <<ox, cp, dg, ids, ctl, rt, store, hist, api>>

\* stream, lines 75-104: the initial portfolio view and summary, in a try of
\* their own, as persist_initial_state.
legacy_persist_initial(fail) == persist_initial_state(fail)

LegacyPersistInitial(s, env) ==
    /\ s \in ids
    /\ task[s].pc = "l_persist_initial"
    /\ \E fail \in SUBSET ({"get_view", "portfolio", "summary"} \cap env.failing) :
         LET res == legacy_persist_initial(fail) IN
         store' = [store EXCEPT ![s].writes = res.writes,
                                ![s].failed = Failed(res.writes, fail)
                                                \cup (fail \cap {"get_view"})]
    /\ task' = [task EXCEPT ![s].pc = "l_loop_check"]
    /\ hist' = [hist EXCEPT ![s].initial_calls = @ + 1]
    /\ UNCHANGED <<ox, cp, dg, ids, ctl, rt, api>>

\* stream, lines 158-160: an Exception inside the try is answered by an
\* error message.
legacy_on_exception(t) ==
    [t EXCEPT !.pc = "l_y_error", !.events = Append(@, "message")]

\* stream, lines 161-162: the finally block yields done.
legacy_finally(t) ==
    [t EXCEPT !.pc = "l_y_done", !.events = Append(@, "done")]

\* stream, lines 105-111: the loop goes on while the store says running.
LegacyLoopCheck(s, env) ==
    /\ s \in ids
    /\ task[s].pc = "l_loop_check"
    /\ \E r \in strategy_running(s) \cap env.answers :
         IF r = "true"
         THEN /\ hist[s].cycles < MaxCycles
              /\ task' = [task EXCEPT ![s].pc = "l_run_cycle"]
              /\ hist' = [hist EXCEPT ![s].cycles = @ + 1]
         ELSE /\ task' = [task EXCEPT ![s] =
                            IF r = "raise" THEN legacy_on_exception(@)
                            ELSE legacy_finally(@)]
              /\ hist' = [hist EXCEPT ![s].exit_path =
                            IF r = "raise" THEN "exception" ELSE "not_running"]
    /\ store' = [store EXCEPT ![s].writes = <<>>, ![s].failed = {}]
    /\ UNCHANGED <<ox, cp, dg, ids, ctl, rt, api>>

\* stream, line 113: run_cycle returns a result with n trades or raises.
LegacyRunCycle(s) ==
    /\ s \in ids
    /\ task[s].pc = "l_run_cycle"
    /\ \E data_ok \in BOOLEAN :
         IF run_once(data_ok) = "result"
         THEN /\ \E n \in 0..MaxTrades : rt' = [rt EXCEPT ![s].result = n]
              /\ task' = [task EXCEPT ![s].pc = "l_persist"]
              /\ hist' = [hist EXCEPT ![s].returned = @ + 1]
         ELSE /\ task' = [task EXCEPT ![s] = legacy_on_exception(@)]
              /\ hist' = [hist EXCEPT ![s].cycle_raised = TRUE,
                                      ![s].exit_path = "exception"]
              /\ UNCHANGED rt
    /\ UNCHANGED <<ox, cp, dg, ids, ctl, store, api>>

\* As legacy_persist_cycle, inside a try that logs the exception.
legacy_persist_cycle_guarded(n, fail, k) ==
    LET stops == "trade" \in fail /\ n > 0
        trades == [i \in 1..(IF stops THEN Min(k, n) ELSE n) |-> "trade"]
        rest == IF stops THEN <<>>
                ELSE IF "portfolio" \in fail THEN <<"portfolio">>
                ELSE <<"portfolio", "summary">>
    IN  [writes |-> trades \o rest, raised |-> FALSE]

(***************************************************************************)
(* stream, lines 120-147, for a result of n trades when the calls in fail  *)
(* raise (for "trade": the k-th trade): the trades, the portfolio view and *)
(* the summary are written in this order with no try of their own, so the  *)
(* first call that raises ends the writes and the exception leaves the     *)
(* loop.                                                                   *)
(***************************************************************************)
legacy_persist_cycle(n, fail, k) ==
    LET stops == "trade" \in fail /\ n > 0
        trades == [i \in 1..(IF stops THEN Min(k, n) ELSE n) |-> "trade"]
        rest == IF stops THEN <<>>
                ELSE IF "portfolio" \in fail THEN <<"portfolio">>
                ELSE <<"portfolio", "summary">>
    IN  [writes |-> trades \o rest,
         raised |-> stops \/ fail \cap {"portfolio", "summary"} # {}]

LegacyPersistCycle(s, env) ==
    /\ s \in ids
    /\ task[s].pc = "l_persist"
    /\ \E fail \in SUBSET ({"trade", "portfolio", "summary"} \cap env.failing),
          k \in 1..MaxTrades :
         LET res == legacy_persist_cycle(rt[s].result, fail, k)
             raises == Failed(res.writes, fail) # {}
         IN  /\ store' = [store EXCEPT ![s].writes = res.writes,
                                       ![s].failed = Failed(res.writes, fail)]
             /\ task' = [task EXCEPT ![s] =
                           IF res.raised THEN legacy_on_exception(@)
                           ELSE [@ EXCEPT !.pc = "l_sleep"]]
             /\ hist' = [hist EXCEPT
                           ![s].persisted = @ + 1,
                           ![s].persist_raised = @ \/ raises,
                           ![s].cycles_at_raise =
                               IF raises /\ @ = -1 THEN hist[s].cycles ELSE @,
                           ![s].exit_path =
                               IF res.raised THEN "exception" ELSE @]
    /\ rt' = [rt EXCEPT ![s].result = 0]
    /\ UNCHANGED <<ox, cp, dg, ids, ctl, api>>

\* stream, line 154: asyncio.sleep(decide_interval) is over.
LegacySleep(s) ==
    /\ s \in ids
    /\ task[s].pc = "l_sleep"
    /\ task' = [task EXCEPT ![s].pc = "l_loop_check"]
    /\ UNCHANGED <<ox, cp, dg, ids, ctl, rt, store, hist, api>>

\* stream, lines 160-162: resumed after the error message, into the finally.
LegacyResumeError(s) ==
    /\ s \in ids
    /\ task[s].pc = "l_y_error"
    /\ task' = [task EXCEPT ![s] = legacy_finally(@)]
    /\ UNCHANGED <<ox, cp, dg, ids, ctl, rt, store, hist, api>>

\* stream, after line 162: the generator ends; a pending exception goes on.
LegacyResumeDone(s) ==
    /\ s \in ids
    /\ task[s].pc = "l_y_done"
    /\ task' = [task EXCEPT ![s] =
                  IF @.pending = "none"
                  THEN [@ EXCEPT !.pc = "done"]
                  ELSE [@ EXCEPT !.pc = "raised", !.exc = task[s].pending]]
    /\ UNCHANGED <<ox, cp, dg, ids, ctl, rt, store, hist, api>>

\* task.cancel() where the stream awaits: inside the try (lines 156-157) the
\* exception is re-raised through the finally block; in the wait loop it
\* leaves the generator at once.
LegacyCancel(s) ==
    /\ s \in ids
    /\ task[s].pc \in LegacyAwaitPcs
    /\ task' = [task EXCEPT ![s] =
                  IF @.pc = "l_wait_sleep"
                  THEN [@ EXCEPT !.pc = "raised", !.exc = "CancelledError"]
                  ELSE legacy_finally([@ EXCEPT !.pending = "CancelledError"])]
    /\ hist' = [hist EXCEPT ![s].exit_path =
                  IF task[s].pc = "l_wait_sleep" THEN @ ELSE "cancelled"]
    /\ UNCHANGED <<ox, cp, dg, ids, ctl, rt, store, api>>

\* The consumer closes the generator where it has yielded.  At the yield of
\* line 160 the finally block answers GeneratorExit with another yield,
\* which the interpreter turns into a RuntimeError.
LegacyAclose(s) ==
    /\ s \in ids
    /\ task[s].pc \in LegacyYieldPcs
    /\ task' = [task EXCEPT ![s].pc = "raised",
                            ![s].exc = IF task[s].pc = "l_y_error"
                                       THEN "RuntimeError"
                                       ELSE "GeneratorExit"]
    /\ UNCHANGED <<ox, cp, dg, ids, ctl, rt, store, hist, api>>

LegacyStep(s, env) ==
    \/ LegacyParse(s)
    \/ LegacyResumeInvalid(s)
    \/ LegacyCreateRuntime(s)
    \/ LegacyWaitPoll(s, env)
    \/ LegacyWaitSleep(s)
    \/ LegacyPersistInitial(s, env)
    \/ LegacyLoopCheck(s, env)
    \/ LegacyRunCycle(s)
    \/ LegacyPersistCycle(s, env)
    \/ LegacySleep(s)
    \/ LegacyResumeError(s)
    \/ LegacyResumeDone(s)

NextLegacy ==
    \E s \in Strategies :
        \/ LegacyStep(s, AnyFault)
        \/ LegacyCancel(s)
        \/ LegacyAclose(s)
        \/ CreateRuntimeDirect(s)
        \/ CreateRuntimeAsync(s)
        \/ EnvRegister(s)
        \/ EnvStop(s)

\* One legacy stream, or one call of the runtime factory by another caller;
\* there is no controller.
InitLegacy ==
    /\ dg = InitDg
    /\ cp = InitCp
    /\ ox = InitOx
    /\ ids = {"s1"}
    /\ task = [s \in ids |-> InitTask]
    /\ ctl = [s \in ids |-> InitCtl(0)]
    /\ rt = [s \in ids |-> InitRt]
    /\ store = [s \in ids |-> InitStore]
    /\ hist = [s \in ids |-> InitHist]
    /\ api = [state |-> "INITIALIZING", elapsed |-> 0, waiting |-> FALSE]

SpecLegacy == InitLegacy /\ [][NextLegacy]_vars

(***************************************************************************)
(* OKXExchange (auto_trading_agent/exchanges/okx_exchange.py): the mapping *)
(* between client symbols and OKX instrument ids, and the position         *)
(* queries.  A string is the sequence of its tokens (a separator or a run  *)
(* of letters); <<>> is the empty string, and None where a string is       *)
(* optional.                                                               *)
(***************************************************************************)
\* str.upper() on a token.
UpperToken(t) ==
    CASE t = "btc" -> "BTC"
      [] t = "eth" -> "ETH"
      [] t = "usdt" -> "USDT"
      [] OTHER -> t

\* str.upper().
str_upper(s) == [i \in DOMAIN s |-> UpperToken(s[i])]

\* str.replace(old, new) for one-token arguments.
str_replace(s, old, new) == [i \in DOMAIN s |-> IF s[i] = old THEN new ELSE s[i]]

\* The index of the first sep in s, 0 when there is none.
str_find(s, sep) ==
    IF \E i \in DOMAIN s : s[i] = sep
    THEN CHOOSE i \in DOMAIN s : s[i] = sep /\ \A j \in 1..(i - 1) : s[j] # sep
    ELSE 0

\* str.partition(sep): what stands before and after the first sep.
str_partition(s, sep) ==
    LET i == str_find(s, sep)
    IN  IF i = 0 THEN [head |-> s, tail |-> <<>>]
        ELSE [head |-> SubSeq(s, 1, i - 1), tail |-> SubSeq(s, i + 1, Len(s))]

\* str.split(sep).
RECURSIVE str_split(_, _)
str_split(s, sep) ==
    LET i == str_find(s, sep)
    IN  IF i = 0 THEN <<s>>
        ELSE <<SubSeq(s, 1, i - 1)>> \o str_split(SubSeq(s, i + 1, Len(s)), sep)

\* The symbols callers pass: the canonical BASE-QUOTE spellings and others.
ClientSymbols ==
    {<<"BTC", "-", "USDT">>, <<"BTC", "-", "USD">>, <<"ETH", "-", "USDC">>,
     <<"ETH", "/", "USDT">>, <<"btc", "-", "usdt">>, <<"BTC">>}

\* normalize_symbol, lines 408-418.
normalize_symbol(inst_type, symbol) ==
    LET clean == str_upper(str_replace(symbol, "/", "-"))
        p == str_partition(clean, "-")
        base == p.head
        quote == p.tail
    IN  IF inst_type = "SPOT"
        THEN IF quote = <<>> THEN clean
             ELSE base \o <<"-">> \o
                    (IF quote = <<"USD">> THEN <<"USDT">> ELSE quote)
        ELSE base \o <<"-", "USDT", "-", "SWAP">>

\* _from_okx_symbol, lines 420-433.
from_okx_symbol(inst_id) ==
    IF inst_id = <<>> THEN <<>>
    ELSE LET parts == str_split(str_upper(inst_id), "-")
             base == parts[1]
             quote == IF Len(parts) > 1 THEN parts[2] ELSE <<"USD">>
         IN  base \o <<"-">> \o (IF quote = <<"USDT">> THEN <<"USD">> ELSE quote)

\* The instruments the exchange lists for an instrument type.
OkxInstruments(inst_type) ==
    IF inst_type = "SPOT"
    THEN {<<"BTC", "-", "USDT">>, <<"ETH", "-", "USDT">>, <<"ETH", "-", "USDC">>}
    ELSE {<<"BTC", "-", "USDT", "-", "SWAP">>, <<"ETH", "-", "USDT", "-", "SWAP">>}

\* get_open_positions, line 354: the balances that are not positions.
CashAssets == {<<"USD">>, <<"USDT">>, <<"USDC">>, <<"withdrawable_usd">>}

(***************************************************************************)
(* get_open_positions, lines 315-364, on an account with open positions in *)
(* the instruments held and with the balances given: the keys of the dict  *)
(* returned.  In contracts mode the instruments of the exchange are mapped *)
(* back to client symbols; in spot mode, and when the query of the         *)
(* exchange fails, every balance that is not cash is a position in         *)
(* ASSET-USDT.  A symbol that is given filters the keys.                   *)
(***************************************************************************)
get_open_positions(inst_type, held, balances, symbol, fails) ==
    LET keys == IF inst_type # "SPOT" /\ ~fails
                THEN {from_okx_symbol(inst) : inst \in held}
                ELSE {asset \o <<"-", "USDT">> : asset \in balances \ CashAssets}
    IN  {client_symbol \in keys : symbol = <<>> \/ client_symbol = symbol}

\* get_position_details, lines 366-368: positions.get(symbol).
get_position_details(inst_type, held, balances, symbol, fails) ==
    IF symbol \in get_open_positions(inst_type, held, balances, symbol, fails)
    THEN <<symbol>> ELSE <<>>

\* The account holds a position in the instrument that symbol stands for.
position_open(o, symbol) ==
    LET inst_id == normalize_symbol(o.inst_type, symbol)
    IN  IF o.inst_type = "SPOT"
        THEN /\ inst_id \in OkxInstruments("SPOT")
             /\ str_partition(inst_id, "-").head \in o.balances
        ELSE inst_id \in o.held

\* An adapter is constructed for spot or for contracts; the account has cash.
InitOkx ==
    /\ \E inst_type \in {"SPOT", "SWAP"} :
         ox = [inst_type |-> inst_type, held |-> {},
               balances |-> {<<"USD">>, <<"USDT">>}, call |-> <<>>]
    /\ dg = InitDg
    /\ cp = InitCp
    /\ ids = {}
    /\ task = [s \in ids |-> InitTask]
    /\ ctl = [s \in ids |-> InitCtl(0)]
    /\ rt = [s \in ids |-> InitRt]
    /\ store = [s \in ids |-> InitStore]
    /\ hist = [s \in ids |-> InitHist]
    /\ api = [state |-> "INITIALIZING", elapsed |-> 0, waiting |-> FALSE]

\* place_order, lines 162-223, filled by the exchange: an order for an
\* instrument the exchange lists opens a position in it (a balance of the
\* base asset in spot mode); any other order is refused.
OkxPlaceOrder(symbol) ==
    LET inst_id == normalize_symbol(ox.inst_type, symbol)
    IN  /\ inst_id \in OkxInstruments(ox.inst_type)
        /\ ox' = IF ox.inst_type = "SPOT"
                 THEN [ox EXCEPT !.balances =
                                    @ \cup {str_partition(inst_id, "-").head}]
                 ELSE [ox EXCEPT !.held = @ \cup {inst_id}]
        /\ UNCHANGED <<cp, dg, ids, task, ctl, rt, store, hist, api>>

\* The exchange closes a position (the balance of an asset is sold).
OkxPositionClosed ==
    /\ \E inst \in ox.held : ox' = [ox EXCEPT !.held = @ \ {inst}]
       \/ \E asset \in ox.balances \ CashAssets :
            ox' = [ox EXCEPT !.balances = @ \ {asset}]
    /\ UNCHANGED <<cp, dg, ids, task, ctl, rt, store, hist, api>>

\* get_open_positions(symbol) is awaited; symbol may be None.
OkxGetOpenPositions(symbol) ==
    /\ \E fails \in BOOLEAN :
         ox' = [ox EXCEPT !.call =
                  <<[op |-> "get_open_positions", symbol |-> symbol,
                     failed |-> fails /\ ox.inst_type # "SPOT",
                     open |-> symbol # <<>> /\ position_open(ox, symbol),
                     positions |-> get_open_positions(
                         ox.inst_type, ox.held, ox.balances, symbol, fails),
                     details |-> <<>>]>>]
    /\ UNCHANGED <<cp, dg, ids, task, ctl, rt, store, hist, api>>

\* get_position_details(symbol) is awaited.
OkxGetPositionDetails(symbol) ==
    /\ \E fails \in BOOLEAN :
         ox' = [ox EXCEPT !.call =
                  <<[op |-> "get_position_details", symbol |-> symbol,
                     failed |-> fails /\ ox.inst_type # "SPOT",
                     open |-> position_open(ox, symbol),
                     positions |-> get_open_positions(
                         ox.inst_type, ox.held, ox.balances, symbol, fails),
                     details |-> get_position_details(
                         ox.inst_type, ox.held, ox.balances, symbol, fails)]>>]
    /\ UNCHANGED <<cp, dg, ids, task, ctl, rt, store, hist, api>>

NextOkx ==
    \/ \E symbol \in ClientSymbols : OkxPlaceOrder(symbol)
    \/ OkxPositionClosed
    \/ \E symbol \in ClientSymbols \cup {<<>>} : OkxGetOpenPositions(symbol)
    \/ \E symbol \in ClientSymbols : OkxGetPositionDetails(symbol)

SpecOkx == InitOkx /\ [][NextOkx]_vars

\* The event loop runs a task that is ready and a timer that is due.
FairSpec ==
    /\ Spec
    /\ \A s \in Strategies :
         /\ WF_vars(WaitPoll(s, AnyFault))
         /\ WF_vars(WaitSleep(s))


(***************************************************************************)
(*                              The claims                                 *)
(***************************************************************************)

\* C1: a stream whose runtime was constructed has invoked finalize exactly
\* once when its task ends, whether it ended by the running predicate turning
\* false, by a cancellation or by an exception.
C1_FinalizeExactlyOnce ==
    \A s \in ids :
        (Ended(s) /\ rt[s].built /\ task[s].exc # "GeneratorExit")
            => hist[s].finalize_calls = 1

C3_CloseTradesPersisted ==
    \A s \in ids :
        (hist[s].close_outcome = "returned" /\ store[s].marks > 0)
            => store[s].close_trades = hist[s].close_returned

\* C4: a stream whose close_all_positions raised ends with the stop reason
\* error_closing_positions, finalize invoked, and mark_strategy_stopped called
\* exactly once.
C4_MarkedStoppedOnceWhenClosingFails ==
    \A s \in ids :
        (hist[s].close_outcome = "raised" /\ Ended(s)) =>
            /\ task[s].stop_reason = "error_closing_positions"
            /\ hist[s].finalize_calls = 1
            /\ store[s].marks = 1

\* A move of the controller state along the lifecycle, or none.
LegalMove(a, b) ==
    \/ a = b
    \/ <<a, b>> \in {<<"none", "INITIALIZING">>,
                     <<"INITIALIZING", "WAITING_RUNNING">>,
                     <<"WAITING_RUNNING", "RUNNING">>,
                     <<"RUNNING", "STOPPED">>}

\* C5 as claimed: no sequence of controller operations (wait_running,
\* finalize, transition_to) moves a controller's state otherwise than along
\* INITIALIZING -> WAITING_RUNNING -> RUNNING -> STOPPED, and STOPPED is final.
C5_OnlyLifecycleMovesByAnyCalls ==
    [][/\ LegalMove(api.state, api'.state)
       /\ \A s \in ids : LegalMove(ctl[s].state, ctl'[s].state)]_vars

\* C5 as amended: the controller of a stream, called as stream calls it, moves
\* only along INITIALIZING -> WAITING_RUNNING -> RUNNING -> STOPPED and never
\* leaves STOPPED.
C5_OnlyLifecycleMovesInStream ==
    [][\A s \in ids : LegalMove(ctl[s].state, ctl'[s].state)]_vars

C5_Witness ==
    \E s \in ids : ctl[s].state = "STOPPED" /\ hist[s].cycles > 0

\* C6: a cycle starts and runs only while the controller is RUNNING: none
\* before RUNNING, none once STOPPED.
C6_CyclesOnlyWhileRunning ==
    \A s \in ids :
        /\ hist[s].cycle_states \subseteq {"RUNNING"}
        /\ task[s].pc \in {"run_cycle", "persist_cycle", "on_cycle_result"}
             => ctl[s].state = "RUNNING"
        /\ ctl[s].state = "STOPPED"
             => task[s].pc \in {"fin_close", "fin_mark", "y_done", "done", "raised"}

C6_Witness ==
    \E s \in ids :
        /\ ctl[s].state = "STOPPED"
        /\ hist[s].cycles = MaxCycles
        /\ Ended(s)

\* C7: once the store says the strategy is stopped, no cycle is started: the
\* cycles started are those started when the stop was written (the one in
\* flight included).
C7_NoCycleStartsAfterStop ==
    \A s \in ids :
        hist[s].cycles_at_stop >= 0 => hist[s].cycles = hist[s].cycles_at_stop

C7_Witness ==
    \E s \in ids :
        /\ hist[s].stop_in_flight
        /\ task[s].stop_reason = "normal_exit"
        /\ task[s].pc = "on_stop"

\* C8 as claimed: wait_running is over only with the controller in RUNNING
\* (or later STOPPED): the state is WAITING_RUNNING only while the wait goes on.
C8_WaitEndsInRunning ==
    \A s \in ids :
        ctl[s].state = "WAITING_RUNNING"
            => task[s].pc \in {"wait_poll", "wait_sleep"}

\* C8 as amended: a controller that is WAITING_RUNNING eventually is RUNNING,
\* registered or not, unless the task is cancelled while it waits.
C8_WaitLeadsToRunningUnlessCancelled ==
    \A s \in Strategies :
        (s \in ids /\ ctl[s].state = "WAITING_RUNNING")
            ~> (/\ s \in ids
                /\ \/ ctl[s].state = "RUNNING"
                   \/ task[s].pc = "raised" /\ task[s].exc = "CancelledError")

\* RUNNING by timeout: never registered, and no poll failed.
C8_Witness ==
    \E s \in ids :
        /\ ctl[s].state = "RUNNING"
        /\ store[s].status = "created"
        /\ ~hist[s].poll_failed
        /\ ctl[s].timeout_s = MaxTimeout

C10_PersistenceFailureNeverAborts ==
    \A s \in ids :
        /\ store[s].failed # {} =>
             /\ task[s].pc \in {"loop_check", "on_cycle_result"}
             /\ task[s].stop_reason = "unset"
             /\ task[s].events = <<"status">>
        /\ task[s].stop_reason = "error" => hist[s].cycle_raised

C10_Witness ==
    \E s \in ids :
        /\ store[s].failed \cap {"trade", "portfolio", "summary"} # {}
        /\ task[s].pc = "on_cycle_result"
        /\ hist[s].cycles = MaxCycles

\* C11: every persistence call is guarded on its own: whichever calls of a
\* cycle (compose, instructions, a trade, portfolio view, summary) or of the
\* initial state (portfolio view, summary) fail, all the calls of that step
\* are attempted: the four of the cycle and one per trade of the result; both
\* of the initial state, once the portfolio could be read.
C11_EveryPersistenceCallAttempted ==
    \A s \in ids :
        /\ task[s].pc = "on_cycle_result"
             => Len(store[s].writes) = 4 + rt[s].result
        /\ (task[s].pc = "loop_check" /\ hist[s].cycles = 0
              /\ "get_view" \notin store[s].failed)
             => store[s].writes = <<"portfolio", "summary">>

\* The place of a write in the order of persist_cycle_results.
Rank(w) ==
    CASE w = "compose" -> 1
      [] w = "instructions" -> 2
      [] w = "trade" -> 3
      [] w = "portfolio" -> 4
      [] w = "summary" -> 5

\* C12: the writes of a cycle are issued in the order compose, instructions,
\* trades, portfolio view, summary (each but the trades at most once), and
\* when run_cycle of a cycle starts or runs, persist_cycle_results of every
\* earlier cycle has returned.
C12_WritesInOrderBeforeNextCycle ==
    \A s \in ids :
        /\ \A i, j \in DOMAIN store[s].writes :
             i < j => /\ Rank(store[s].writes[i]) <= Rank(store[s].writes[j])
                      /\ Rank(store[s].writes[i]) = Rank(store[s].writes[j])
                           => store[s].writes[i] = "trade"
        /\ task[s].pc = "on_cycle_result" /\ store[s].failed = {}
             => store[s].writes =
                  <<"compose", "instructions">>
                    \o [i \in 1..rt[s].result |-> "trade"]
                    \o <<"portfolio", "summary">>
        /\ task[s].pc \in {"run_cycle", "persist_cycle"}
             => hist[s].persisted = hist[s].cycles - 1

C12_Witness ==
    \E s \in ids :
        /\ task[s].pc = "on_cycle_result"
        /\ hist[s].cycles = MaxCycles
        /\ hist[s].persisted = MaxCycles
        /\ store[s].failed = {}
        /\ Len(store[s].writes) = 4 + MaxTrades

\* C13: a cycle that failed because the market data fetch or the feature
\* computation raised aborts only that cycle: the stream does not take it for
\* a reason to stop, and reports no error.
C13_FailedCycleAbortsOnlyItself ==
    \A s \in ids :
        hist[s].cycle_raised =>
            /\ task[s].stop_reason # "error"
            /\ \A i \in DOMAIN task[s].events : task[s].events[i] # "message"

\* C14: a stream cancelled during the decision loop has the stop reason
\* cancelled, runs the cleanup (the _on_stop hook, then finalize, both with
\* that reason) and never returns normally: it ends by the CancelledError,
\* unless its consumer closed it while it was suspended at the done chunk.
C14_CancelledCleansUpAndReraises ==
    \A s \in ids :
        hist[s].exit_path = "cancelled" =>
            /\ task[s].stop_reason = "cancelled"
            /\ task[s].pc \in {"on_stop", "finalize", "fin_close", "fin_mark",
                               "y_done", "raised"}
            /\ task[s].pc # "on_stop" => hist[s].on_stop_reason = "cancelled"
            /\ task[s].pc \notin {"on_stop", "finalize"}
                 => /\ hist[s].finalize_reason = "cancelled"
                    /\ hist[s].finalize_calls = 1
            /\ task[s].pc \in {"fin_close", "fin_mark", "y_done"}
                 => task[s].pending = "CancelledError"
            /\ task[s].pc = "raised"
                 => \/ task[s].exc = "CancelledError"
                    \/ /\ task[s].exc = "GeneratorExit"
                       /\ task[s].events[Len(task[s].events)] = "done"

C14_Witness ==
    \E s \in ids :
        /\ hist[s].exit_path = "cancelled"
        /\ hist[s].on_stop_reason = "cancelled"
        /\ hist[s].finalize_reason = "cancelled"
        /\ store[s].marks = 1
        /\ task[s].events = <<"status", "done">>
        /\ task[s].pc = "raised"
        /\ task[s].exc = "CancelledError"

\* The stop reason handed to _on_stop and to finalize is r, as far as they
\* have been called.
Handed(s, r) ==
    /\ hist[s].on_stop_reason \in {"none", r}
    /\ hist[s].finalize_reason \in {"none", r}
    /\ hist[s].finalize_reason # "none" => hist[s].on_stop_reason = r

\* C15 as claimed: the stop reason handed to _on_stop and to finalize is
\* normal_exit when the running predicate ended the loop, error when an
\* exception did (reported by a message, and not what leaves the stream), and
\* cancelled on cancellation.
C15_StopReasonReflectsExitPath ==
    \A s \in ids :
        /\ hist[s].exit_path = "none" => Handed(s, "none")
        /\ hist[s].exit_path = "not_running" => Handed(s, "normal_exit")
        /\ hist[s].exit_path = "cancelled" => Handed(s, "cancelled")
        /\ hist[s].exit_path = "exception"
             => /\ Handed(s, "error")
                /\ \E i \in DOMAIN task[s].events : task[s].events[i] = "message"
                /\ task[s].exc # "Exception"

\* Closing the positions raised: in close_all_positions, or in persisting
\* the trades it returned.
ClosingRaised(s) ==
    \/ hist[s].close_outcome = "raised"
    \/ /\ hist[s].close_outcome = "returned"
       /\ store[s].close_trades # hist[s].close_returned

\* C15 as amended: as claimed, but when the running predicate ended the loop
\* the reason handed over is normal_exit only if closing the positions raised
\* nothing, and error_closing_positions if it did.
C15_StopReasonReflectsExitPathAndClosing ==
    \A s \in ids :
        /\ hist[s].exit_path = "none" => Handed(s, "none")
        /\ hist[s].exit_path = "not_running"
             => Handed(s, IF ClosingRaised(s) THEN "error_closing_positions"
                          ELSE "normal_exit")
        /\ hist[s].exit_path = "cancelled" => Handed(s, "cancelled")
        /\ hist[s].exit_path = "exception"
             => /\ Handed(s, "error")
                /\ \E i \in DOMAIN task[s].events : task[s].events[i] = "message"
                /\ task[s].exc # "Exception"

C15_Witness ==
    \E s \in ids :
        /\ hist[s].exit_path = "not_running"
        /\ hist[s].close_outcome = "raised"
        /\ hist[s].on_stop_reason = "error_closing_positions"
        /\ hist[s].finalize_reason = "error_closing_positions"
        /\ task[s].pc = "done"

\* The number of writes w among ws.
Count(ws, w) == Cardinality({i \in DOMAIN ws : ws[i] = w})

\* C16: every result run_cycle has returned is handed to
\* persist_cycle_results before anything else can happen to the stream: a
\* result not yet handed over exists only between the two calls, where the
\* stream neither ends nor can be cancelled; and persist_cycle_results
\* attempts the write of every trade of the result, unless one of them raises.
C16_EveryResultHandedToPersist ==
    \A s \in ids :
        /\ hist[s].returned - hist[s].persisted \in {0, 1}
        /\ hist[s].returned # hist[s].persisted => task[s].pc = "persist_cycle"
        /\ Ended(s) => hist[s].returned = hist[s].persisted
        /\ (task[s].pc = "on_cycle_result" /\ "trade" \notin store[s].failed)
             => Count(store[s].writes, "trade") = rt[s].result

C16_Witness ==
    \E s \in ids :
        /\ hist[s].exit_path = "cancelled"
        /\ hist[s].stop_in_flight
        /\ hist[s].returned = MaxCycles
        /\ hist[s].persisted = MaxCycles
        /\ Ended(s)

\* C17: an exception raised by a user hook is swallowed.  The step in which
\* a hook raises leaves the stop reason, the pending exception and the events
\* as they were and takes the stream where the hook's return takes it (to the
\* initial persistence, to the sleep of the loop, to finalize); and of a
\* stream one of whose hooks raised, no Exception leaves the generator, the
\* stop reason is error only if run_cycle raised, and finalize has been
\* invoked once the stream is past _on_stop.
C17_HookExceptionSwallowed ==
    /\ [](\A s \in ids :
            hist[s].hook_raised # {} =>
                /\ task[s].exc # "Exception"
                /\ task[s].stop_reason = "error" => hist[s].cycle_raised
                /\ ("_on_stop" \in hist[s].hook_raised
                      /\ task[s].pc \in {"fin_close", "fin_mark", "y_done", "done"})
                     => hist[s].finalize_calls = 1)
    /\ [][\A s \in ids :
            hist'[s].hook_raised # hist[s].hook_raised =>
                /\ task'[s].stop_reason = task[s].stop_reason
                /\ task'[s].pending = task[s].pending
                /\ task'[s].exc = "none"
                /\ task'[s].events = task[s].events
                /\ task'[s].pc = CASE task[s].pc = "on_start" -> "persist_initial"
                                   [] task[s].pc = "on_cycle_result" -> "sleep"
                                   [] task[s].pc = "on_stop" -> "finalize"]_vars

C17_Witness ==
    \E s \in ids :
        /\ hist[s].hook_raised = {"_on_start", "_on_cycle_result", "_on_stop"}
        /\ hist[s].cycles = MaxCycles
        /\ task[s].stop_reason = "normal_exit"
        /\ hist[s].finalize_calls = 1
        /\ task[s].pc = "done"

\* C18: persist_initial_state is called exactly once, with the controller
\* RUNNING and before the first cycle, and writes the portfolio view, then
\* the summary; from then on the stream moves only run_cycle ->
\* persist_cycle_results -> (hook) -> sleep -> check of the running predicate
\* -> run_cycle, every cycle starting from a fresh check.
C18_InitialOnceThenLoopOrder ==
    /\ [](\A s \in ids :
            /\ hist[s].initial_calls <= 1
            /\ hist[s].cycles > 0 => hist[s].initial_calls = 1
            /\ hist[s].initial_calls = 1 => ctl[s].state \in {"RUNNING", "STOPPED"}
            /\ (task[s].pc = "loop_check" /\ hist[s].cycles = 0
                  /\ store[s].failed = {})
                 => store[s].writes = <<"portfolio", "summary">>)
    /\ [][\A s \in ids :
            LET a == task[s].pc
                b == task'[s].pc
            IN  a # b =>
                  /\ b = "persist_initial"
                       => a = "on_start" /\ ctl[s].state = "RUNNING"
                  /\ b = "loop_check" => a \in {"persist_initial", "sleep"}
                  /\ b = "run_cycle"
                       => a = "loop_check" /\ store[s].status = "running"
                  /\ b = "persist_cycle" => a = "run_cycle"
                  /\ b = "on_cycle_result" => a = "persist_cycle"
                  /\ b = "sleep" => a = "on_cycle_result"]_vars

C18_Witness ==
    \E s \in ids :
        /\ hist[s].initial_calls = 1
        /\ hist[s].cycles = MaxCycles
        /\ hist[s].persisted = MaxCycles
        /\ task[s].pc = "loop_check"
        /\ ctl[s].state = "RUNNING"

\* The collaborators a runtime was constructed with.
Collaborators(r) ==
    {r.portfolio_service, r.history_recorder, r.execution_gateway}

\* C19: two strategies running as interleaved tasks do not interfere: their
\* runtimes share no portfolio service, history recorder or execution
\* gateway, their controllers carry different strategy ids, and a step of one
\* strategy's task (a cycle, a stop, finalize) leaves the other strategy's
\* task, controller, runtime and entry of the store (its status and its
\* stopped marks included) as they were.
C19_StrategiesDoNotInterfere ==
    /\ [](\A s, t \in ids :
            s # t =>
              /\ (rt[s].built /\ rt[t].built)
                   => Collaborators(rt[s]) \cap Collaborators(rt[t]) = {}
              /\ ctl[s].strategy_id # "none"
                   => ctl[s].strategy_id # ctl[t].strategy_id)
    /\ [][\A s \in ids :
            task'[s] # task[s] =>
              \A t \in ids \ {s} :
                 /\ task'[t] = task[t]
                 /\ ctl'[t] = ctl[t]
                 /\ rt'[t] = rt[t]
                 /\ store'[t] = store[t]
                 /\ hist'[t] = hist[t]]_vars

C19_Witness ==
    \E s, t \in ids :
        /\ s # t
        /\ ctl[s].state = "STOPPED"
        /\ hist[s].cycles > 0
        /\ store[s].marks = 1
        /\ store[s].status = "stopped"
        /\ ctl[t].state = "RUNNING"
        /\ task[t].pc = "run_cycle"
        /\ store[t].status = "running"
        /\ store[t].marks = 0

\* C20: build is deterministic: two calls on the same list of records (the
\* empty list included) return the same TradeDigest, ts included.
C20_BuildIsDeterministic ==
    Len(dg.results) = 2 => dg.results[1] = dg.results[2]

\* The execution-kind records of a list, in order.
ExecutionRecords(records) ==
    SelectSeq(records, LAMBDA r : r.kind = "execution")

\* The last n elements of a sequence.
LastN(seq, n) ==
    SubSeq(seq, IF Len(seq) > n THEN Len(seq) - n + 1 ELSE 1, Len(seq))

\* C21: the digest is built from the most recent N (window) execution-kind
\* records: every symbol traded in one of the last N execution records has
\* an entry in the digest, however many records of other kinds follow it.
C21_LastExecutionRecordsContribute ==
    \A i \in DOMAIN dg.results :
        \A r \in DOMAIN LastN(ExecutionRecords(dg.records), dg.window) :
            LET rec == LastN(ExecutionRecords(dg.records), dg.window)[r]
            IN  \A j \in DOMAIN rec.trades :
                    has_symbol(rec.trades[j]) =>
                        rec.trades[j].symbol
                            \in DOMAIN dg.results[i].by_instrument

\* The positions <<record, trade>> of the trade payloads with the symbol in
\* the execution-kind records of the trailing window of dg.records.
WindowPayloads(symbol) ==
    {p \in (1..Len(dg.records)) \X (1..MaxPayloads) :
        /\ p[1] > Len(dg.records) - dg.window
        /\ dg.records[p[1]].kind = "execution"
        /\ p[2] <= Len(dg.records[p[1]].trades)
        /\ dg.records[p[1]].trades[p[2]].symbol = symbol}

\* The sum of the realized P&L of the payloads at positions P, a missing
\* value counting as 0.
RECURSIVE SumPnl(_)
SumPnl(P) ==
    IF P = {} THEN 0
    ELSE LET p == CHOOSE q \in P : TRUE
             d == dg.records[p[1]].trades[p[2]]
         IN  (IF d.realized_pnl = <<>> THEN 0 ELSE d.realized_pnl[1])
                 + SumPnl(P \ {p})

\* C22: for each symbol, the entry's trade_count is the number of trade
\* payloads with that symbol in the execution-kind records of the trailing
\* window and realized_pnl is the sum of their realized P&L (missing: 0);
\* every payload counts once, and a symbol without payloads has no entry.
C22_CountAndPnlPerSymbol ==
    \A k \in DOMAIN dg.results :
        LET by == dg.results[k].by_instrument
        IN  /\ DOMAIN by \subseteq Symbols
            /\ \A symbol \in Symbols :
                 LET P == WindowPayloads(symbol)
                 IN  IF P = {} THEN symbol \notin DOMAIN by
                     ELSE /\ symbol \in DOMAIN by
                          /\ by[symbol].trade_count = Cardinality(P)
                          /\ by[symbol].realized_pnl = SumPnl(P)

\* Two legs on BTC in two records of the window, one without a realized
\* P&L: the entry counts 2.
C22_Witness ==
    /\ dg.results # <<>>
    /\ Len(dg.records) = 2
    /\ \A i \in 1..2 :
         /\ dg.records[i].kind = "execution"
         /\ Len(dg.records[i].trades) = 1
         /\ dg.records[i].trades[1].symbol = "BTC"
    /\ dg.records[1].trades[1].realized_pnl = <<1>>
    /\ dg.records[2].trades[1].realized_pnl = <<>>
    /\ "BTC" \in DOMAIN dg.results[1].by_instrument
    /\ dg.results[1].by_instrument["BTC"].trade_count = 2
    /\ dg.results[1].by_instrument["BTC"].realized_pnl = 1

\* C23: build is pure: a call leaves the record list, every record and
\* trade payload in it and the builder unchanged, and the TradeDigest of an
\* earlier call is not changed by a later call.
C23_BuildIsPure ==
    [][/\ dg'.records = dg.records
       /\ dg'.window = dg.window
       /\ \A i \in DOMAIN dg.results :
            /\ i \in DOMAIN dg'.results
            /\ dg'.results[i] = dg.results[i]]_vars

\* Two builds on records whose window holds a BTC trade.
C23_Witness ==
    /\ Len(dg.results) = 2
    /\ "BTC" \in DOMAIN dg.results[1].by_instrument
    /\ dg.results[1].by_instrument["BTC"].trade_count = 2
    /\ dg.results[2].by_instrument["BTC"].trade_count = 2

\* The delta of the last call of compose: target_qty - current_qty.
CallDelta ==
    cp.call[1].item.target_qty
        - current_qty(cp.context.portfolio, cp.call[1].item.instrument)

\* The last call of compose gave one instruction, of this side and quantity.
OneInstruction(side, quantity) ==
    /\ Len(cp.call[1].instructions) = 1
    /\ cp.call[1].instructions[1].side = side
    /\ cp.call[1].instructions[1].quantity = quantity
    /\ cp.call[1].instructions[1].instrument = cp.call[1].item.instrument

\* A guardrail of the context suppresses the instruction of the last call.
Suppressed ==
    LET item == cp.call[1].item
        current == current_qty(cp.context.portfolio, item.instrument)
    IN  \/ cp.context.min_step # <<>>
             /\ Abs(CallDelta) < cp.context.min_step[1]
        \/ item.instrument \in cp.context.cooldown
        \/ /\ cp.context.max_positions # <<>>
           /\ current = 0
           /\ Cardinality({s \in Symbols :
                  current_qty(cp.context.portfolio, s) # 0})
                >= cp.context.max_positions[1]

\* The quantity |delta| of the last call, capped at the maximum position
\* size.
Capped ==
    IF /\ cp.context.max_position_size # <<>>
       /\ cp.context.max_position_size[1] < Abs(CallDelta)
    THEN cp.context.max_position_size[1] ELSE Abs(CallDelta)

\* C24 (as claimed): a positive delta gives one BUY of quantity delta, a
\* negative delta one SELL of quantity |delta|, a zero delta or a no-op
\* action no instruction.
C24_DeltaDecidesTheOrder ==
    cp.call # <<>> =>
        IF cp.call[1].item.action = "noop" \/ CallDelta = 0
        THEN cp.call[1].instructions = <<>>
        ELSE IF CallDelta > 0 THEN OneInstruction("BUY", CallDelta)
        ELSE OneInstruction("SELL", -CallDelta)

\* C24 (amended): a zero delta, a no-op action or a guardrail (threshold,
\* cooldown, position cap) gives no instruction; otherwise a positive delta
\* gives one BUY and a negative delta one SELL, of quantity |delta| capped
\* at the maximum position size.
C24_DeltaDecidesTheOrderWithinGuardrails ==
    cp.call # <<>> =>
        IF cp.call[1].item.action = "noop" \/ CallDelta = 0 \/ Suppressed
        THEN cp.call[1].instructions = <<>>
        ELSE IF CallDelta > 0 THEN OneInstruction("BUY", Capped)
        ELSE OneInstruction("SELL", Capped)

\* Current 2 and target 5 without constraints: BUY 3, under a sell tag.
C24_Witness ==
    /\ cp.call # <<>>
    /\ cp.context.min_step = <<>>
    /\ cp.context.max_position_size = <<>>
    /\ cp.context.max_positions = <<>>
    /\ cp.context.cooldown = {}
    /\ cp.call[1].item.instrument = "BTC"
    /\ cp.call[1].item.action = "sell"
    /\ current_qty(cp.context.portfolio, "BTC") = 2
    /\ cp.call[1].item.target_qty = 5
    /\ OneInstruction("BUY", 3)

ShutdownOrder ==
    <<"close_all_positions", "_on_stop", "STOPPED", "close",
      "mark_strategy_stopped">>

\* C26: the shutdown steps run in a fixed order: position closing (when
\* attempted) first, then the _on_stop hook, the transition to STOPPED,
\* coordinator.close() and mark_strategy_stopped, none of them skipped or
\* repeated; the controller is RUNNING while the positions are being closed
\* and STOPPED from the transition on.
C26_ShutdownOrder ==
    \A s \in ids :
        LET log == hist[s].shutdown
            rest == SelectSeq(log, LAMBDA x : x # "close_all_positions")
        IN  /\ \A i \in DOMAIN log : log[i] = "close_all_positions" => i = 1
            /\ Len(rest) <= 4
            /\ \A i \in DOMAIN rest : rest[i] = ShutdownOrder[i + 1]
            /\ task[s].pc = "close_positions" =>
                 /\ ctl[s].state = "RUNNING"
                 /\ log = <<"close_all_positions">>
            /\ Len(rest) >= 2 <=> ctl[s].state = "STOPPED"

\* A shutdown with all five steps.
C26_Witness ==
    \E s \in ids :
        /\ hist[s].shutdown = ShutdownOrder
        /\ task[s].pc = "done"

\* C27: in finalize, an exception of coordinator.close() does not prevent
\* mark_strategy_stopped from being attempted (it is the next step), and an
\* exception of mark_strategy_stopped is swallowed (the stream goes on to
\* its done event); in both cases the controller is already STOPPED.
C27_FinalizeFailuresSwallowed ==
    /\ [](\A s \in ids :
            hist[s].finalize_raised # {} =>
                /\ ctl[s].state = "STOPPED"
                /\ task[s].exc # "Exception"
                /\ "close" \in hist[s].finalize_raised =>
                     \/ task[s].pc = "fin_mark"
                     \/ /\ store[s].marks = 1
                        /\ hist[s].shutdown[Len(hist[s].shutdown)]
                             = "mark_strategy_stopped")
    /\ [][\A s \in ids :
            hist'[s].finalize_raised # hist[s].finalize_raised =>
                /\ ctl[s].state = "STOPPED"
                /\ ctl'[s].state = "STOPPED"
                /\ task'[s].stop_reason = task[s].stop_reason
                /\ task'[s].pending = task[s].pending
                /\ IF task[s].pc = "fin_close"
                   THEN task'[s].pc = "fin_mark" /\ task'[s].exc = "none"
                   ELSE IF task[s].pending = "GeneratorExit"
                   THEN task'[s].exc = "RuntimeError"
                   ELSE /\ task'[s].pc = "y_done"
                        /\ task'[s].events = Append(task[s].events, "done")
                        /\ store'[s].marks = 1]_vars

\* Both calls of finalize raised, and the stream ended with its done event.
C27_Witness ==
    \E s \in ids :
        /\ hist[s].finalize_raised = {"close", "mark_strategy_stopped"}
        /\ task[s].pc = "done"
        /\ store[s].marks = 1
        /\ store[s].status # "stopped"
        /\ task[s].events[Len(task[s].events)] = "done"

\* C28 (as claimed), for a stream that is neither cancelled nor closed and
\* whose closing returns no trade: once the running-predicate check has
\* raised in the decision loop, the stream ends as a normal exit: finalize
\* is given the reason normal_exit, the positions are closed, the strategy
\* is marked stopped.
C28_FailedCheckEndsAsNormalExit ==
    \A s \in ids :
        (hist[s].check_raised /\ task[s].pc = "done"
            /\ hist[s].close_returned = 0) =>
            /\ hist[s].finalize_reason = "normal_exit"
            /\ hist[s].close_outcome = "returned"
            /\ store[s].marks = 1

\* C28 (amended): a check that raises in the loop is read as False and ends
\* the loop on the normal-exit path, never as 'error': no further cycle
\* starts, stop_reason is set to normal_exit and close_all_positions is
\* attempted; the reason stays normal_exit unless the closing (or the
\* persisting of its trades) raises, which makes it error_closing_positions;
\* a stream that reaches its done event has called mark_strategy_stopped.
C28_FailedCheckTakesNormalExitPath ==
    /\ [](\A s \in ids :
            hist[s].check_raised =>
                /\ hist[s].exit_path = "not_running"
                /\ hist[s].close_attempts = 1
                /\ ~hist[s].cycle_raised
                /\ task[s].pc \notin {"run_cycle", "persist_cycle", "sleep"}
                /\ task[s].stop_reason
                     \in {"normal_exit", "error_closing_positions"}
                /\ task[s].stop_reason = "error_closing_positions" =>
                     \/ hist[s].close_outcome = "raised"
                     \/ hist[s].close_returned > 0
                /\ hist[s].finalize_calls = 1 =>
                     hist[s].finalize_reason = task[s].stop_reason
                /\ task[s].pc = "done" => store[s].marks = 1)
    /\ [][\A s \in ids :
            (~hist[s].check_raised /\ hist'[s].check_raised) =>
                /\ task'[s].pc = "close_positions"
                /\ task'[s].stop_reason = "normal_exit"
                /\ hist'[s].cycles = hist[s].cycles]_vars

\* The check raised after a cycle, the closing raised, and the stream ended
\* with the strategy marked stopped for the reason error_closing_positions.
C28_Witness ==
    \E s \in ids :
        /\ hist[s].check_raised
        /\ hist[s].cycles = 1
        /\ hist[s].close_outcome = "raised"
        /\ hist[s].finalize_reason = "error_closing_positions"
        /\ task[s].pc = "done"
        /\ store[s].status = "stopped"

\* C29: finalize is given the reason error_closing_positions only when
\* close_all_positions itself raised; a normal exit whose closing returned
\* (with or without trades) is finalized with the reason normal_exit.
C29_ErrorClosingOnlyWhenClosingFailed ==
    \A s \in ids :
        hist[s].finalize_calls = 1 =>
            /\ hist[s].finalize_reason = "error_closing_positions" =>
                 hist[s].close_outcome = "raised"
            /\ (hist[s].exit_path = "not_running"
                  /\ hist[s].close_outcome = "returned") =>
                 hist[s].finalize_reason = "normal_exit"

\* C30: a stream that has ended, on any exit path other than the consumer
\* closing it (invalid request, normal stop, error, cancellation or polling
\* failure in any phase), has emitted a done event, and done is the last
\* event it emitted.
C30_DoneIsLastOnEveryExitPath ==
    \A s \in ids :
        /\ \A i \in 1..(Len(task[s].events) - 1) : task[s].events[i] # "done"
        /\ (Ended(s) /\ "GeneratorExit" \notin {task[s].exc, task[s].pending}) =>
              /\ task[s].events # <<>>
              /\ task[s].events[Len(task[s].events)] = "done"


(***************************************************************************)
(* C31.  An invalid request payload is answered by the validation message  *)
(* and done, and by nothing else.                                          *)
(***************************************************************************)
\* The request of stream s did not validate: the stream is at one of the
\* yields of lines 142-143, or began with the message of line 142 (a valid
\* request yields the status of line 167 before any message).
InvalidRequest(s) ==
    \/ task[s].pc \in {"y_invalid_msg", "y_invalid_done"}
    \/ task[s].events # <<>> /\ task[s].events[1] = "message"

\* C31: when the request payload is invalid, the stream emits the validation
\* message and then done (a prefix of the two while the consumer has not read
\* to the end), and nothing else happens: no runtime and no controller is
\* created, no status is emitted, and no persistence call, no cycle, no
\* close_all_positions and no finalize takes place.
C31_InvalidRequestOnlyAnswered ==
    \A s \in ids :
        InvalidRequest(s) =>
            /\ task[s].events \in {<<"message">>, <<"message", "done">>}
            /\ task[s].pc = "y_invalid_msg" => task[s].events = <<"message">>
            /\ task[s].pc \in {"y_invalid_done", "done"} =>
                  task[s].events = <<"message", "done">>
            /\ task[s].pc \in {"y_invalid_msg", "y_invalid_done", "done", "raised"}
            /\ task[s].pc = "raised" => task[s].exc = "GeneratorExit"
            /\ rt[s] = InitRt
            /\ ctl[s].state = "none" /\ ctl[s].strategy_id = "none"
            /\ store[s].writes = <<>> /\ store[s].marks = 0
            /\ store[s].close_trades = 0
            /\ hist[s].cycles = 0 /\ hist[s].finalize_calls = 0
            /\ hist[s].close_attempts = 0 /\ hist[s].initial_calls = 0
            /\ hist[s].shutdown = <<>>

\* The stream of an invalid request has been read to its end.
C31_Witness ==
    \E s \in ids :
        /\ task[s].pc = "done"
        /\ task[s].events = <<"message", "done">>
        /\ ~rt[s].built


(***************************************************************************)
(* C32.  The legacy stream does not guard its per-cycle persistence.       *)
(***************************************************************************)
\* C32: in the legacy StrategyAgent.stream, once a call that persists a
\* trade, the portfolio view or the summary of a cycle has raised, no
\* further cycle runs, the stream has reported the error as a message (after
\* the status, and followed by done when the consumer reads on), and the
\* strategy is not marked stopped, its positions are not closed and nothing
\* is finalized.
C32_LegacyPersistenceFailureEndsLoop ==
    \A s \in ids :
        hist[s].persist_raised =>
            /\ hist[s].cycles = hist[s].cycles_at_raise
            /\ task[s].pc \in {"l_y_error", "l_y_done", "done", "raised"}
            /\ task[s].events \in {<<"status", "message">>,
                                   <<"status", "message", "done">>}
            /\ task[s].pc = "l_y_error" => task[s].events = <<"status", "message">>
            /\ task[s].pc \in {"l_y_done", "done"} =>
                  task[s].events = <<"status", "message", "done">>
            /\ task[s].pc = "raised" => task[s].exc \in {"GeneratorExit", "RuntimeError"}
            /\ store[s].marks = 0
            /\ rt[s].close_calls = 0
            /\ hist[s].close_attempts = 0
            /\ hist[s].finalize_calls = 0

\* The summary of the first cycle could not be persisted (its trades and its
\* portfolio view were) while a second cycle was still allowed, and the
\* stream was read to its end.
C32_Witness ==
    \E s \in ids :
        /\ hist[s].persist_raised
        /\ store[s].failed = {"summary"}
        /\ hist[s].cycles = 1
        /\ task[s].pc = "done"
        /\ task[s].events = <<"status", "message", "done">>


(***************************************************************************)
(* C33.  The runtime factory and the execution gateway.                    *)
(***************************************************************************)
\* C33: create_strategy_runtime raises RuntimeError exactly when the request
\* asks for live trading and no execution gateway is supplied, and then
\* builds no runtime; when a gateway is supplied (by the caller, or by
\* create_strategy_runtime_async) the call succeeds in either trading mode,
\* that gateway is the one handed to the coordinator, and the call creates
\* no gateway.
C33_GatewayRequiredForLiveAndKept ==
    \A s \in ids :
        hist[s].factory_calls > 0 =>
            /\ hist[s].factory_raised = "RuntimeError" <=>
                  (hist[s].trading_mode = "live" /\ hist[s].gateway_supplied = <<>>)
            /\ hist[s].factory_raised = "RuntimeError" =>
                  /\ ~rt[s].built
                  /\ hist[s].gateways_created = {}
                  /\ task[s].pc = "raised" /\ task[s].exc = "RuntimeError"
                  /\ task[s].events = <<>>
            /\ hist[s].gateway_supplied # <<>> =>
                  /\ hist[s].factory_raised = "none"
                  /\ rt[s].built
                  /\ rt[s].execution_gateway = hist[s].gateway_supplied[1]
                  /\ hist[s].gateways_created = {}

\* A live-trading runtime was built around a gateway of the caller.
C33_Witness ==
    \E s \in ids :
        /\ hist[s].trading_mode = "live"
        /\ hist[s].gateway_supplied = <<7>>
        /\ rt[s].built
        /\ rt[s].execution_gateway = 7


(***************************************************************************)
(* C34.  last_trade_ts of a digest entry.                                  *)
(***************************************************************************)
\* The payloads of WindowPayloads(symbol) that carry a trade_ts.
Stamped(symbol) ==
    {p \in WindowPayloads(symbol) :
        dg.records[p[1]].trades[p[2]].trade_ts # <<>>}

\* Position p comes before position q in window order.
Before(p, q) == p[1] < q[1] \/ (p[1] = q[1] /\ p[2] < q[2])

TradeTs(p) == dg.records[p[1]].trades[p[2]].trade_ts[1]

\* C34: last_trade_ts of an entry is the trade_ts of the last payload of its
\* symbol, in window order, that carries one (None when none does; a later
\* payload without trade_ts keeps the earlier value); when the stamped
\* payloads of the symbol are in chronological order it is their maximum.
C34_LastTradeTsIsLatestInWindowOrder ==
    \A k \in DOMAIN dg.results :
        LET by == dg.results[k].by_instrument
        IN  \A symbol \in DOMAIN by :
                LET S == Stamped(symbol)
                IN  IF S = {} THEN by[symbol].last_trade_ts = <<>>
                    ELSE LET last == CHOOSE p \in S :
                                         \A q \in S \ {p} : Before(q, p)
                         IN  /\ by[symbol].last_trade_ts = <<TradeTs(last)>>
                             /\ (\A p, q \in S :
                                     Before(p, q) => TradeTs(p) <= TradeTs(q))
                                  => \A p \in S :
                                         TradeTs(p) <= by[symbol].last_trade_ts[1]

\* Two BTC trades out of chronological order in the window: last_trade_ts
\* is that of the later payload, not the maximum.
C34_Witness ==
    /\ dg.results # <<>>
    /\ "BTC" \in DOMAIN dg.results[1].by_instrument
    /\ \E p, q \in Stamped("BTC") :
         /\ Before(p, q)
         /\ TradeTs(p) = 2 /\ TradeTs(q) = 1
    /\ dg.results[1].by_instrument["BTC"].last_trade_ts = <<1>>


(***************************************************************************)
(* C35.  Client symbols through the OKX instrument format and back.        *)
(***************************************************************************)
\* The client symbols in the canonical spelling BASE-QUOTE.
CanonicalSymbols ==
    {s \in ClientSymbols : Len(s) = 3 /\ s[2] = "-" /\ str_upper(s) = s}

\* C35: for a client symbol s (in its canonical spelling),
\* _from_okx_symbol(normalize_symbol(s)) = s, and a query of the positions
\* for s that the exchange answered returns the position held in the
\* instrument of s whenever one is open, under the key s, in contracts mode
\* and in spot mode.
C35_SymbolsRoundTrip ==
    \A i \in DOMAIN ox.call :
        LET c == ox.call[i]
        IN  (c.symbol \in CanonicalSymbols /\ ~c.failed) =>
                /\ from_okx_symbol(normalize_symbol(ox.inst_type, c.symbol))
                     = c.symbol
                /\ c.open =>
                     /\ c.symbol \in c.positions
                     /\ c.op = "get_position_details" => c.details = <<c.symbol>>

=============================================================================
